---------------------------- MODULE Spec2Model ----------------------------
(***************************************************************************)
(* A model of turbogate, an L4 TCP load balancer: the load-balancing       *)
(* policies and the server pool (balancer.rs), the health supervisor and   *)
(* its shared status table (health.rs), and the accept loop and the        *)
(* connection handler (proxy.rs).                                          *)
(***************************************************************************)
EXTENDS Integers, Sequences, FiniteSets, TLC

VARIABLES
    servers,            \* BackendLoadBalancer.servers: Vec<ServerState>
    algorithm,          \* BackendLoadBalancer.algorithm (the `balance` directive)
    balancer,           \* the picker's own cursor state
    lastSel,            \* what the last select_server call returned
    hist,               \* history: names selected since the eligible set last changed
    histCap,            \* history: how many selections hist keeps
    lastCall,           \* history: the last counter call, with the counters before it
    health,             \* HealthChecker.backends[backend].servers: name -> HealthState
    sup,                \* the supervisor task: position, updated_servers, loop cursors
    server_statuses,    \* ProxyServer.server_statuses[backend]: name -> ServerStatus
    statusLock,         \* the RwLock around server_statuses: writer flag and readers
    probeRun,           \* history: consecutive failed / successful probes per server,
                        \* in all and since the server's status last changed
    maint,              \* history: the last set_server_maintenance call per server
    active_connections, \* ProxyServer.active_connections: frontend -> count
    acceptor,           \* per listener: position of accept_connections, count it read
    handler,            \* per task slot: position of the spawned handler task
    backendGuard,       \* who holds the backends.get_mut entry of the backend
    maxconn_errors,     \* connection_errors_total{error_type="maxconn_limit"}, all frontends
    activity,           \* DdosProtection.activity: client IP -> IpActivity
    ddosOpen,           \* history: connections admitted by check_connection_limit, not yet closed
    ddosLast,           \* history: the last DdosProtection call and what it returned
    route,              \* one select_backend call: frontend_config, client_addr, result
    run,                \* ProxyServer::run: its position, the count it logged
    pump,               \* one proxy_data_with_timeouts call: both copies, its result
    conf,               \* the set-up: config.global.maxconn, the runtime's worker_threads
    parse,              \* one `server` line of a backend section and the ServerConfig read from it
    peer,               \* the supervisor task of the second backend, with its health table
    peer_statuses       \* ProxyServer.server_statuses[second backend]

balVars == <<servers, algorithm, balancer, lastSel, hist, histCap, lastCall>>
healthVars == <<health, sup, server_statuses, statusLock, probeRun, maint>>
proxyVars == <<active_connections, acceptor, handler, backendGuard, maxconn_errors>>

ddosVars == <<activity, ddosOpen, ddosLast>>
peerVars == <<peer, peer_statuses>>
extVars == <<ddosVars, route, run, pump, conf, parse, peerVars>>

vars == <<servers, algorithm, balancer, lastSel, hist, histCap, lastCall,
          health, sup, server_statuses, statusLock, probeRun, maint,
          active_connections, acceptor, handler, backendGuard, maxconn_errors,
          activity, ddosOpen, ddosLast, route, run, pump, conf,
          parse, peer, peer_statuses>>

----------------------------------------------------------------------------
(* Bounds of the model *)

MaxWeight == 2      \* weights are drawn from 0..MaxWeight
MaxActive == 4      \* active_connections is driven up to MaxActive
HistLen == 6        \* selections kept in hist
MaxCount == 2      \* consecutive_successes / consecutive_failures are driven up to MaxCount
MaxConn == 1        \* global.maxconn of the configuration
MaxErrors == 2      \* rejections counted
MaxOpen == 3        \* connections one client keeps open at a time
MaxAcls == 2        \* acl lines of a frontend
MaxRules == 2       \* use_backend lines of a frontend
MaxBytes == 2       \* bytes one direction of the pump copies
MaxWorkers == 2     \* worker threads of the runtime that polls the tasks
MaxOptions == 3     \* options on a server line

Statuses == {"Up", "Down", "Maintenance"}

\* the `balance` values: the five the factory names and one it does not know
Algorithms == {"roundrobin", "weighted_roundrobin", "leastconn", "source",
               "random", "static-rr"}

PoolNames == <<"s1", "s2", "s3">>
NoServer == "none"
Pending == "pending"
Diverged == "diverged"

----------------------------------------------------------------------------
(* balancer.rs: ServerState *)

ServerState_new(name, weight, backup, disabled) ==
    [name |-> name, weight |-> weight, backup |-> backup, disabled |-> disabled,
     status |-> "Up", active_connections |-> 0]

increment_connections(s) ==
    [s EXCEPT !.active_connections = @ + 1]

decrement_connections_underflow(s) ==
    [s EXCEPT !.active_connections = @ - 1]

decrement_connections(s) ==
    IF s.active_connections > 0
    THEN [s EXCEPT !.active_connections = @ - 1]
    ELSE s

is_available_any_status(s) ==
    ~s.disabled /\ ~s.backup /\ s.weight > 0

is_available(s) ==
    s.status = "Up" /\ ~s.disabled /\ ~s.backup /\ s.weight > 0

is_backup(s) == s.backup

\* positions (1-based, in list order) of the servers that satisfy P
Positions(svs, P(_)) ==
    SelectSeq([i \in 1..Len(svs) |-> i], LAMBDA i : P(svs[i]))

available_servers(svs) == Positions(svs, is_available)

SeqMax(S) == CHOOSE m \in S : \A x \in S : x <= m
SeqMin(S) == CHOOSE m \in S : \A x \in S : m <= x

----------------------------------------------------------------------------
(* balancer.rs: the pickers.  Each returns the new cursor state and the    *)
(* position in `svs` of the server it returns (0 for None, -1 when the     *)
(* loop did not come to an end).                                           *)

Balancer_new ==
    [current_index |-> 0, current_weight |-> 0, max_weight |-> 0, gcd |-> 1]

RoundRobinBalancer_select_server(bal, svs) ==
    LET avail == available_servers(svs)
        backups == Positions(svs, LAMBDA s : is_backup(s) /\ s.status = "Up")
    IN  IF Len(svs) = 0 THEN [balancer |-> bal, selected |-> 0]
        ELSE IF Len(avail) = 0
        THEN IF Len(backups) = 0 THEN [balancer |-> bal, selected |-> 0]
             ELSE LET i == (bal.current_index + 1) % Len(backups)
                  IN  [balancer |-> [bal EXCEPT !.current_index = i],
                       selected |-> backups[i + 1]]
        ELSE LET i == (bal.current_index + 1) % Len(avail)
             IN  [balancer |-> [bal EXCEPT !.current_index = i],
                  selected |-> avail[i + 1]]

\* a least-connections picker that takes any available server
LeastConnectionBalancer_select_any(bal, svs, rnd) ==
    LET avail == available_servers(svs)
    IN  IF Len(avail) = 0 THEN [balancer |-> bal, selected |-> 0]
        ELSE [balancer |-> bal, selected |-> avail[(rnd % Len(avail)) + 1]]

LeastConnectionBalancer_select_server(bal, svs, rnd) ==
    LET avail == available_servers(svs)
    IN  IF Len(avail) = 0 THEN [balancer |-> bal, selected |-> 0]
        ELSE LET min_connections ==
                     SeqMin({svs[avail[k]].active_connections : k \in 1..Len(avail)})
                 with_min == SelectSeq(avail,
                     LAMBDA i : svs[i].active_connections = min_connections)
             IN  IF Len(with_min) = 1
                 THEN [balancer |-> bal, selected |-> with_min[1]]
                 ELSE [balancer |-> bal,
                       selected |-> with_min[(rnd % Len(with_min)) + 1]]

RECURSIVE calculate_gcd(_, _)
calculate_gcd(a, b) ==
    IF b = 0 THEN a ELSE calculate_gcd(b, a % b)

RECURSIVE gcd_fold(_, _, _)
gcd_fold(weights, k, acc) ==
    IF k > Len(weights) THEN acc
    ELSE gcd_fold(weights, k + 1, calculate_gcd(acc, weights[k]))

calculate_gcd_of_weights(svs) ==
    LET pos == Positions(svs, LAMBDA s : is_available(s) /\ s.weight > 0)
        weights == [k \in 1..Len(pos) |-> svs[pos[k]].weight]
    IN  IF Len(weights) = 0 THEN 1 ELSE gcd_fold(weights, 2, weights[1])

\* a subtraction that is left out
saturating_sub_skipped(a, b) == a

saturating_sub(a, b) == IF a > b THEN a - b ELSE 0

\* one pass of the selection loop without the advance of the cursor
wrr_advance_stuck(idx, cw, g, mw, n) ==
    [current_index |-> idx, current_weight |-> cw]

\* a cursor that forgets the weight level: every server passes the test
wrr_advance_unweighted(idx, cw, g, mw, n) ==
    [current_index |-> (idx + 1) % n, current_weight |-> 0]

\* a wrap of the cursor that leaves current_weight as it is
wrr_advance_level(idx, cw, g, mw, n) ==
    [current_index |-> (idx + 1) % n, current_weight |-> cw]

\* lines 248-255: advance the cursor; on a wrap lower current_weight by gcd
wrr_advance(idx, cw, g, mw, n) ==
    LET i1 == (idx + 1) % n
        t  == saturating_sub(cw, g)
    IN  [current_index |-> i1,
         current_weight |-> IF i1 = 0 THEN (IF t = 0 THEN mw ELSE t) ELSE cw]

RECURSIVE wrr_loop(_, _, _, _, _, _, _)
wrr_loop(svs, avail, idx, cw, g, mw, fuel) ==
    IF fuel = 0 THEN [current_index |-> idx, current_weight |-> cw, found |-> FALSE]
    ELSE LET st == wrr_advance(idx, cw, g, mw, Len(avail))
         IN  IF svs[avail[st.current_index + 1]].weight >= st.current_weight
             THEN [current_index |-> st.current_index,
                   current_weight |-> st.current_weight, found |-> TRUE]
             ELSE wrr_loop(svs, avail, st.current_index, st.current_weight,
                           g, mw, fuel - 1)

WeightedRoundRobinBalancer_select_server(bal, svs) ==
    LET avail == Positions(svs, LAMBDA s : is_available(s) /\ s.weight > 0)
    IN  IF Len(avail) = 0 THEN [balancer |-> bal, selected |-> 0]
        ELSE LET g  == calculate_gcd_of_weights(svs)
                 mw == SeqMax({svs[avail[k]].weight : k \in 1..Len(avail)})
                 cw == IF bal.current_weight = 0 THEN mw ELSE bal.current_weight
                 r  == wrr_loop(svs, avail, bal.current_index, cw, g, mw,
                                Len(avail) * (cw + mw + 2))
                 nb == [current_index |-> r.current_index,
                        current_weight |-> r.current_weight,
                        max_weight |-> mw, gcd |-> g]
             IN  [balancer |-> nb,
                  selected |-> IF r.found THEN avail[r.current_index + 1] ELSE -1]

SourceHashBalancer_select_server(bal, svs, rnd) ==
    LET avail == available_servers(svs)
    IN  IF Len(avail) = 0 THEN [balancer |-> bal, selected |-> 0]
        ELSE [balancer |-> bal, selected |-> avail[(rnd % Len(avail)) + 1]]

RandomBalancer_select_server(bal, svs, rnd) ==
    LET avail == available_servers(svs)
    IN  IF Len(avail) = 0 THEN [balancer |-> bal, selected |-> 0]
        ELSE [balancer |-> bal, selected |-> avail[(rnd % Len(avail)) + 1]]

LoadBalancerFactory_create(alg) ==
    CASE alg = "roundrobin" -> "WeightedRoundRobinBalancer"
      [] alg = "leastconn" -> "LeastConnectionBalancer"
      [] alg = "weighted_roundrobin" -> "WeightedRoundRobinBalancer"
      [] alg = "source" -> "SourceHashBalancer"
      [] alg = "random" -> "RandomBalancer"
      [] OTHER -> "WeightedRoundRobinBalancer"

\* the trait call self.balancer.select_server(&self.servers)
select_server(alg, bal, svs, rnd) ==
    LET kind == LoadBalancerFactory_create(alg)
    IN  CASE kind = "RoundRobinBalancer" -> RoundRobinBalancer_select_server(bal, svs)
          [] kind = "LeastConnectionBalancer" ->
                 LeastConnectionBalancer_select_server(bal, svs, rnd)
          [] kind = "WeightedRoundRobinBalancer" ->
                 WeightedRoundRobinBalancer_select_server(bal, svs)
          [] kind = "SourceHashBalancer" -> SourceHashBalancer_select_server(bal, svs, rnd)
          [] kind = "RandomBalancer" -> RandomBalancer_select_server(bal, svs, rnd)

SelectedName(svs, sel) ==
    IF sel = 0 THEN NoServer ELSE IF sel < 0 THEN Diverged ELSE svs[sel].name

----------------------------------------------------------------------------
(* balancer.rs: BackendLoadBalancer, the pool *)

\* position of the first server called `name`, 0 when there is none
FirstNamed(svs, name) ==
    IF \E i \in 1..Len(svs) : svs[i].name = name
    THEN CHOOSE i \in 1..Len(svs) :
            svs[i].name = name /\ \A j \in 1..(i - 1) : svs[j].name # name
    ELSE 0

\* a pool that drops the status it is handed
update_server_status_dropped(svs, name, status) == svs

update_server_status(svs, name, status) ==
    LET i == FirstNamed(svs, name)
    IN  IF i = 0 THEN svs ELSE [svs EXCEPT ![i].status = status]

increment_server_connections(svs, name) ==
    LET i == FirstNamed(svs, name)
    IN  IF i = 0 THEN svs ELSE [svs EXCEPT ![i] = increment_connections(@)]

decrement_server_connections(svs, name) ==
    LET i == FirstNamed(svs, name)
    IN  IF i = 0 THEN svs ELSE [svs EXCEPT ![i] = decrement_connections(@)]

get_server_status(svs, name) ==
    LET i == FirstNamed(svs, name)
    IN  IF i = 0 THEN NoServer ELSE svs[i].status

Counters(svs) == [i \in 1..Len(svs) |-> svs[i].active_connections]

\* the last `cap` selections, kept for the properties; none when cap = 0
Push(h, x, cap) ==
    IF cap = 0 THEN h
    ELSE IF Len(h) < cap THEN Append(h, x) ELSE Append(Tail(h), x)

NoCall == [op |-> "none", name |-> NoServer, before |-> <<>>]

EligibleNames(svs) ==
    {svs[i].name : i \in {j \in 1..Len(svs) : is_available(svs[j])}}

----------------------------------------------------------------------------
(* The configuration of the running system: one backend `be` of three      *)
(* servers, two of them checked (`check rise 2 fall 2` and `check rise 2   *)
(* fall 1`), and two frontends of one listener each.                       *)

\* rise and fall are 0 where the server line does not give them
ConfigServers ==
    << [name |-> "s1", weight |-> 1, backup |-> FALSE, disabled |-> FALSE, check |-> TRUE,
        rise |-> 2, fall |-> 2],
       [name |-> "s2", weight |-> 1, backup |-> FALSE, disabled |-> FALSE, check |-> TRUE,
        rise |-> 2, fall |-> 1],
       [name |-> "s3", weight |-> 1, backup |-> FALSE, disabled |-> FALSE, check |-> FALSE,
        rise |-> 0, fall |-> 0] >>

ServerNames == {ConfigServers[i].name : i \in 1..Len(ConfigServers)}
CheckedNames ==
    {ConfigServers[i].name : i \in {j \in 1..Len(ConfigServers) : ConfigServers[j].check}}

Frontends == {"fe1", "fe2"}
Listeners == {"l1", "l2"}
ListenerFrontend(l) == IF l = "l1" THEN "fe1" ELSE "fe2"
Slots == {1, 2}

----------------------------------------------------------------------------
(* health.rs: the health table and the supervisor *)

\* config.rs 780-812: the backend's health_check is made of the options of
\* the first server that has `check`, with rise 2 and fall 3 for what that
\* server's line does not give
create_health_check_config(config_server) ==
    LET checked == {j \in 1..Len(config_server) : config_server[j].check}
    IN  IF checked = {} THEN [some |-> FALSE, rise |-> 0, fall |-> 0]
        ELSE LET first == config_server[SeqMin(checked)]
             IN  [some |-> TRUE,
                  rise |-> IF first.rise = 0 THEN 2 ELSE first.rise,
                  fall |-> IF first.fall = 0 THEN 3 ELSE first.fall]

health_check == create_health_check_config(ConfigServers)

\* the thresholds HealthChecker::new takes from the backend's health_check
rise_threshold == IF health_check.some THEN health_check.rise ELSE 2
fall_threshold == IF health_check.some THEN health_check.fall ELSE 3

HealthState_default ==
    [status |-> "Up", consecutive_failures |-> 0, consecutive_successes |-> 0]

HealthChecker_new == [n \in CheckedNames |-> HealthState_default]

\* a probe result that moves the status one probe after the threshold is met
check_server_health_late(hs, ok) ==
    IF ok
    THEN LET h1 == [hs EXCEPT !.consecutive_successes = @ + 1,
                              !.consecutive_failures = 0]
         IN  IF h1.consecutive_successes > rise_threshold /\ h1.status # "Up"
             THEN [h1 EXCEPT !.status = "Up"] ELSE h1
    ELSE LET h1 == [hs EXCEPT !.consecutive_failures = @ + 1,
                              !.consecutive_successes = 0]
         IN  IF h1.consecutive_failures > fall_threshold /\ h1.status # "Down"
             THEN [h1 EXCEPT !.status = "Down"] ELSE h1

\* a probe result that leaves the opposite counter as it was
check_server_health_no_reset(hs, ok) ==
    IF ok
    THEN LET h1 == [hs EXCEPT !.consecutive_successes = @ + 1]
         IN  IF h1.consecutive_successes >= rise_threshold /\ h1.status # "Up"
             THEN [h1 EXCEPT !.status = "Up"] ELSE h1
    ELSE LET h1 == [hs EXCEPT !.consecutive_failures = @ + 1]
         IN  IF h1.consecutive_failures >= fall_threshold /\ h1.status # "Down"
             THEN [h1 EXCEPT !.status = "Down"] ELSE h1

check_server_health(hs, ok) ==
    IF ok
    THEN LET h1 == [hs EXCEPT !.consecutive_successes = @ + 1,
                              !.consecutive_failures = 0]
         IN  IF h1.consecutive_successes >= rise_threshold /\ h1.status # "Up"
             THEN [h1 EXCEPT !.status = "Up"] ELSE h1
    ELSE LET h1 == [hs EXCEPT !.consecutive_failures = @ + 1,
                              !.consecutive_successes = 0]
         IN  IF h1.consecutive_failures >= fall_threshold /\ h1.status # "Down"
             THEN [h1 EXCEPT !.status = "Down"] ELSE h1

\* a call that enters the server into the table when it is not there
set_server_maintenance_inserting(tbl, name, maintenance) ==
    [n \in DOMAIN tbl \cup {name} |->
        IF n = name
        THEN [IF n \in DOMAIN tbl THEN tbl[n] ELSE HealthState_default
                EXCEPT !.status = IF maintenance THEN "Maintenance" ELSE "Up"]
        ELSE tbl[n]]

set_server_maintenance(tbl, name, maintenance) ==
    IF name \in DOMAIN tbl
    THEN [tbl EXCEPT ![name].status = IF maintenance THEN "Maintenance" ELSE "Up"]
    ELSE tbl

\* tokio RwLock: a reader enters unless a writer holds the lock, a writer
\* enters when nobody holds it
can_read_unlocked(lock) == TRUE

can_read(lock) == ~lock.writer

can_write(lock) == ~lock.writer /\ lock.readers = {}

Absent == "absent"
Unread == "unread"

PeerNames == {"s1"}

\* server_statuses as a whole: backend name -> (server name -> status)
StatusTable == [be |-> server_statuses, be2 |-> peer_statuses]

\* an insert that reaches the server's name under every backend
insert_status_by_server(tbl, backend_name, server_name, status) ==
    [b \in DOMAIN tbl |->
        IF server_name \in DOMAIN tbl[b]
        THEN [tbl[b] EXCEPT ![server_name] = status] ELSE tbl[b]]

\* lines 367-374: statuses.entry(backend_name).or_insert_with(HashMap::new)
\* and one backend_statuses.insert(server_name, status)
insert_status(tbl, backend_name, server_name, status) ==
    [tbl EXCEPT ![backend_name][server_name] = status]

Supervisor_new ==
    [pc |-> "idle", updated_servers |-> HealthChecker_new, k |-> 1, todo |-> {},
     probed |-> {}, outcome |-> "none", read_guard |-> FALSE,
     backend_state |-> HealthChecker_new]

NoRun ==
    [n \in CheckedNames |->
        [failed |-> 0, succeeded |-> 0, failed_since |-> 0, succeeded_since |-> 0]]

\* lines 325-328: clone the backend's state (backend_state), copy its health
\* table (updated_servers), start the probe loop
SupBegin ==
    /\ sup.pc = "idle"
    /\ sup' = [pc |-> "probe", updated_servers |-> health, k |-> 1, todo |-> {},
               probed |-> {}, outcome |-> "none", read_guard |-> FALSE,
               backend_state |-> health]
    /\ UNCHANGED <<health, server_statuses, statusLock, probeRun, maint>>
    /\ UNCHANGED <<balVars, proxyVars>>
    /\ UNCHANGED extVars

\* lines 330-341: one pass of the loop over config.server
SupProbe ==
    /\ sup.pc = "probe"
    /\ sup.k <= Len(ConfigServers)
    /\ LET c == ConfigServers[sup.k]
       IN  IF c.check /\ c.name \in DOMAIN sup.updated_servers
           THEN \E ok \in BOOLEAN :
                  LET hs == sup.updated_servers[c.name]
                  IN  /\ IF ok THEN hs.consecutive_successes < MaxCount
                               ELSE hs.consecutive_failures < MaxCount
                      /\ sup' = [sup EXCEPT
                                   !.updated_servers[c.name] = check_server_health(hs, ok),
                                   !.k = @ + 1,
                                   !.probed = @ \cup {c.name}]
                      /\ probeRun' = [probeRun EXCEPT ![c.name] =
                            LET moved == check_server_health(hs, ok).status # hs.status
                            IN  [failed |-> IF ok THEN 0 ELSE @.failed + 1,
                                 succeeded |-> IF ok THEN @.succeeded + 1 ELSE 0,
                                 failed_since |->
                                     IF ok \/ moved THEN 0 ELSE @.failed_since + 1,
                                 succeeded_since |->
                                     IF ~ok \/ moved THEN 0 ELSE @.succeeded_since + 1]]
           ELSE /\ sup' = [sup EXCEPT !.k = @ + 1]
                /\ UNCHANGED probeRun
    /\ UNCHANGED <<health, server_statuses, statusLock, maint>>
    /\ UNCHANGED <<balVars, proxyVars>>
    /\ UNCHANGED extVars

\* lines 344-361: write the copy back over the backend's health table
SupSave ==
    /\ sup.pc = "probe"
    /\ sup.k > Len(ConfigServers)
    /\ health' = sup.updated_servers
    /\ sup' = [sup EXCEPT !.pc = "publish_wait"]
    /\ UNCHANGED <<server_statuses, statusLock, probeRun, maint>>
    /\ UNCHANGED <<balVars, proxyVars>>
    /\ UNCHANGED extVars

\* line 367: the write lock of the shared table is acquired
SupPublishAcquire ==
    /\ sup.pc = "publish_wait"
    /\ can_write(statusLock)
    /\ statusLock' = [statusLock EXCEPT !.writer = TRUE]
    /\ sup' = [sup EXCEPT !.pc = "publishing", !.todo = DOMAIN sup.updated_servers]
    /\ UNCHANGED <<health, server_statuses, probeRun, maint>>
    /\ UNCHANGED <<balVars, proxyVars>>
    /\ UNCHANGED extVars

\* lines 371-380: one insert of the loop over updated_servers (a HashMap:
\* the order of the iteration is not fixed)
SupPublishInsert ==
    /\ sup.pc = "publishing"
    /\ \E n \in sup.todo :
         /\ LET tbl == insert_status(StatusTable, "be", n, sup.updated_servers[n].status)
            IN  /\ server_statuses' = tbl.be
                /\ peer_statuses' = tbl.be2
         /\ sup' = [sup EXCEPT !.todo = @ \ {n}]
         /\ handler' = [h \in Slots |->
                IF sup.updated_servers[n].status = "Up"
                THEN [handler[h] EXCEPT !.avoid = @ \ {n}]
                ELSE handler[h]]
    /\ UNCHANGED <<health, statusLock, probeRun, maint>>
    /\ UNCHANGED <<balVars, active_connections, acceptor, backendGuard, maxconn_errors>>
    /\ UNCHANGED <<ddosVars, route, run, pump, conf, parse, peer>>

\* lines 381-383: the loop is over, the write guard is dropped; the cycle's
\* summary is logged and the task sleeps check_interval
SupPublishRelease ==
    /\ sup.pc = "publishing"
    /\ sup.todo = {}
    /\ statusLock' = [statusLock EXCEPT !.writer = FALSE]
    /\ sup' = [sup EXCEPT !.pc = "idle", !.outcome = "published"]
    /\ handler' = [h \in Slots |->
           IF handler[h].pc = "copy"
           THEN [handler[h] EXCEPT !.tables = @ \cup {server_statuses}]
           ELSE handler[h]]
    /\ UNCHANGED <<health, server_statuses, probeRun, maint>>
    /\ UNCHANGED <<balVars, active_connections, acceptor, backendGuard, maxconn_errors>>
    /\ UNCHANGED extVars

\* HealthChecker::set_server_maintenance, called by an administrator
AdminSetMaintenance ==
    \E name \in ServerNames, maintenance \in BOOLEAN :
        /\ health' = set_server_maintenance(health, name, maintenance)
        /\ maint' = IF name \in DOMAIN health
                    THEN [maint EXCEPT ![name] = IF maintenance THEN "on" ELSE "off"]
                    ELSE maint
        /\ probeRun' = IF name \in DOMAIN health
                          /\ set_server_maintenance(health, name, maintenance)[name].status
                                 # health[name].status
                       THEN [probeRun EXCEPT ![name].failed_since = 0,
                                             ![name].succeeded_since = 0]
                       ELSE probeRun
        /\ UNCHANGED <<sup, server_statuses, statusLock>>
        /\ UNCHANGED <<balVars, proxyVars>>
        /\ UNCHANGED extVars

----------------------------------------------------------------------------
(* health.rs: the shared status table with a second backend, be2, of one   *)
(* checked server that is named like a server of be.  Each backend has its *)
(* own HealthChecker and supervisor task; the table and its lock are       *)
(* shared.                                                                 *)

Peer_new ==
    [pc |-> "idle", health |-> [n \in PeerNames |-> HealthState_default],
     updated_servers |-> [n \in PeerNames |-> HealthState_default], todo |-> {}]

PeerIdle ==
    /\ peer = Peer_new
    /\ peer_statuses = [n \in PeerNames |-> Absent]

\* lines 325-361 in the task of be2: the table is cloned, every checked
\* server is probed, the copy is written back.  Nothing of this is seen by
\* another task
PeerCheck ==
    /\ peer.pc = "idle"
    /\ \E ok \in [PeerNames -> BOOLEAN] :
         /\ \A n \in PeerNames :
               IF ok[n] THEN peer.health[n].consecutive_successes < MaxCount
                        ELSE peer.health[n].consecutive_failures < MaxCount
         /\ LET updated == [n \in PeerNames |->
                               check_server_health(peer.health[n], ok[n])]
            IN  peer' = [peer EXCEPT !.pc = "publish_wait", !.health = updated,
                                     !.updated_servers = updated]
    /\ UNCHANGED <<peer_statuses, ddosVars, route, run, pump, conf, parse>>
    /\ UNCHANGED <<balVars, healthVars, proxyVars>>

\* line 367 in the task of be2
PeerPublishAcquire ==
    /\ peer.pc = "publish_wait"
    /\ can_write(statusLock)
    /\ statusLock' = [statusLock EXCEPT !.writer = TRUE]
    /\ peer' = [peer EXCEPT !.pc = "publishing", !.todo = DOMAIN peer.updated_servers]
    /\ UNCHANGED <<peer_statuses, ddosVars, route, run, pump, conf, parse>>
    /\ UNCHANGED <<health, sup, server_statuses, probeRun, maint>>
    /\ UNCHANGED <<balVars, proxyVars>>

\* lines 371-380 in the task of be2
PeerPublishInsert ==
    /\ peer.pc = "publishing"
    /\ \E n \in peer.todo :
         LET tbl == insert_status(StatusTable, "be2", n, peer.updated_servers[n].status)
         IN  /\ server_statuses' = tbl.be
             /\ peer_statuses' = tbl.be2
             /\ peer' = [peer EXCEPT !.todo = @ \ {n}]
    /\ UNCHANGED <<ddosVars, route, run, pump, conf, parse>>
    /\ UNCHANGED <<health, sup, statusLock, probeRun, maint>>
    /\ UNCHANGED <<balVars, proxyVars>>

\* lines 381-383 in the task of be2
PeerPublishRelease ==
    /\ peer.pc = "publishing"
    /\ peer.todo = {}
    /\ statusLock' = [statusLock EXCEPT !.writer = FALSE]
    /\ peer' = [peer EXCEPT !.pc = "idle"]
    /\ UNCHANGED <<peer_statuses, ddosVars, route, run, pump, conf, parse>>
    /\ UNCHANGED <<health, sup, server_statuses, probeRun, maint>>
    /\ UNCHANGED <<balVars, proxyVars>>

NextPeer == PeerCheck \/ PeerPublishAcquire \/ PeerPublishInsert \/ PeerPublishRelease

----------------------------------------------------------------------------
(* health.rs: the supervisor that HealthChecker::start spawns,             *)
(* run_health_checks.  Its loop differs from the one above in how it holds *)
(* the lock of `backends`.                                                 *)

\* the RwLock of HealthChecker.backends as the supervisor finds it: itself
\* a reader or not (every other user takes and drops it within one call)
backends_lock(s) ==
    [writer |-> FALSE, readers |-> IF s.read_guard THEN {"supervisor"} ELSE {}]

\* lines 116-117: `if let Some(backend_state) = backends.read().await.get(..)`:
\* the read guard is a temporary of the condition and lives to the end of
\* the if-let; the table is copied under it
StartBegin ==
    /\ sup.pc = "idle"
    /\ sup' = [pc |-> "probe", updated_servers |-> health, k |-> 1, todo |-> {},
               probed |-> {}, outcome |-> "none", read_guard |-> TRUE,
               backend_state |-> health]
    /\ UNCHANGED <<health, server_statuses, statusLock, probeRun, maint>>
    /\ UNCHANGED <<balVars, proxyVars>>
    /\ UNCHANGED extVars

\* lines 127-147: a second read guard is taken and dropped, then
\* backends.write() is awaited for at most 1 s: the table is written back
\* and the task sleeps, or the wait times out and run_health_checks returns
StartSave ==
    /\ sup.pc = "probe"
    /\ sup.k > Len(ConfigServers)
    /\ IF can_write(backends_lock(sup))
       THEN /\ health' = sup.updated_servers
            /\ sup' = [sup EXCEPT !.pc = "idle", !.outcome = "saved",
                                  !.read_guard = FALSE]
       ELSE /\ sup' = [sup EXCEPT !.pc = "returned", !.outcome = "timed_out",
                                  !.read_guard = FALSE]
            /\ UNCHANGED health
    /\ UNCHANGED <<server_statuses, statusLock, probeRun, maint>>
    /\ UNCHANGED <<balVars, proxyVars>>
    /\ UNCHANGED extVars

\* HealthChecker::set_server_maintenance needs backends.write(): it gets it
\* when the supervisor holds no guard
StartAdmin == can_write(backends_lock(sup)) /\ AdminSetMaintenance

----------------------------------------------------------------------------
(* proxy.rs: the accept loop and the connection handler *)

SumConnections(conns) ==
    LET RECURSIVE Sum(_)
        Sum(S) == IF S = {} THEN 0
                  ELSE LET f == CHOOSE x \in S : TRUE
                       IN  conns[f] + Sum(S \ {f})
    IN  Sum(DOMAIN conns)

HandlerFree ==
    [pc |-> "free", frontend |-> "none", server |-> NoServer, todo |-> {},
     seen |-> [n \in CheckedNames |-> Unread], tables |-> {}, avoid |-> {},
     result |-> "none"]

\* handle_connection has returned (Ok or Err, the Err counted as
\* handle_error): what is left of the task is lines 245-253
Closing(t) == [HandlerFree EXCEPT !.pc = "closing", !.frontend = t.frontend]

\* the same, with what handle_connection returned: "success", or the error
Returned(t, result) == [Closing(t) EXCEPT !.result = result]

Acceptor_new == [pc |-> "accept", current_connections |-> 0]

\* line 201: listener.accept() returns a client connection
AcceptConn(l) ==
    /\ acceptor[l].pc = "accept"
    /\ acceptor' = [acceptor EXCEPT ![l].pc = "read"]
    /\ UNCHANGED <<active_connections, handler, backendGuard, maxconn_errors>>
    /\ UNCHANGED <<balVars, healthVars>>
    /\ UNCHANGED extVars

\* lines 205-208: the sum of the counters, read under the read lock
ReadCount(l) ==
    /\ acceptor[l].pc = "read"
    /\ acceptor' = [acceptor EXCEPT ![l] =
           [pc |-> "check", current_connections |-> SumConnections(active_connections)]]
    /\ UNCHANGED <<active_connections, handler, backendGuard, maxconn_errors>>
    /\ UNCHANGED <<balVars, healthVars>>
    /\ UNCHANGED extVars

\* the limit test of line 210 taken one connection too far
over_limit_off_by_one(current_connections, max_connections) ==
    current_connections > max_connections

over_limit(current_connections, max_connections) ==
    current_connections >= max_connections

\* lines 210-214: the limit is reached: count the error, drop the client
\* stream, go on to the next accept
Reject(l) ==
    /\ acceptor[l].pc = "check"
    /\ over_limit(acceptor[l].current_connections, conf.maxconn)
    /\ maxconn_errors < MaxErrors
    /\ maxconn_errors' = maxconn_errors + 1
    /\ acceptor' = [acceptor EXCEPT ![l].pc = "accept"]
    /\ UNCHANGED <<active_connections, handler, backendGuard>>
    /\ UNCHANGED <<balVars, healthVars>>
    /\ UNCHANGED extVars

\* the same rejection once the error counter has reached its bound
RejectUncounted(l) ==
    /\ acceptor[l].pc = "check"
    /\ over_limit(acceptor[l].current_connections, conf.maxconn)
    /\ maxconn_errors = MaxErrors
    /\ acceptor' = [acceptor EXCEPT ![l].pc = "accept"]
    /\ UNCHANGED <<active_connections, handler, backendGuard, maxconn_errors>>
    /\ UNCHANGED <<balVars, healthVars>>
    /\ UNCHANGED extVars

\* lines 216-254: count the connection and spawn its handler task
Admit(l, slots) ==
    /\ acceptor[l].pc = "check"
    /\ ~over_limit(acceptor[l].current_connections, conf.maxconn)
    /\ \E h \in slots :
         /\ handler[h].pc = "free"
         /\ \A g \in slots : g < h => handler[g].pc # "free"
         /\ handler' = [handler EXCEPT ![h] =
                [HandlerFree EXCEPT !.pc = "start", !.frontend = ListenerFrontend(l)]]
    /\ active_connections' = [active_connections EXCEPT ![ListenerFrontend(l)] = @ + 1]
    /\ acceptor' = [acceptor EXCEPT ![l].pc = "accept"]
    /\ UNCHANGED <<backendGuard, maxconn_errors>>
    /\ UNCHANGED <<balVars, healthVars>>
    /\ UNCHANGED extVars

\* lines 268-288: the frontend and its default backend are found, the
\* backend's entry is taken with get_mut, select_server is entered
HGuard(h) ==
    /\ handler[h].pc = "start"
    /\ backendGuard = 0
    /\ backendGuard' = h
    /\ handler' = [handler EXCEPT ![h].pc = "read_wait",
                                  ![h].avoid = {n \in CheckedNames :
                                                  server_statuses[n] = "Down"}]
    /\ UNCHANGED <<active_connections, acceptor, maxconn_errors>>
    /\ UNCHANGED <<balVars, healthVars>>
    /\ UNCHANGED extVars

\* lines 422-425: the read lock of the shared table is acquired
HReadAcquire(h) ==
    /\ handler[h].pc = "read_wait"
    /\ can_read(statusLock)
    /\ statusLock' = [statusLock EXCEPT !.readers = @ \cup {h}]
    /\ handler' = [handler EXCEPT ![h].pc = "copy",
                                  ![h].todo = {n \in CheckedNames :
                                                 server_statuses[n] # Absent},
                                  ![h].tables = {server_statuses}]
    /\ UNCHANGED <<active_connections, acceptor, backendGuard, maxconn_errors>>
    /\ UNCHANGED <<balVars, health, sup, server_statuses, probeRun, maint>>
    /\ UNCHANGED extVars

\* lines 429-438: one pass of the loop over the backend's statuses
HCopy(h) ==
    /\ handler[h].pc = "copy"
    /\ \E n \in handler[h].todo :
         /\ server_statuses[n] # Absent
         /\ servers' = update_server_status(servers, n, server_statuses[n])
         /\ handler' = [handler EXCEPT ![h].todo = @ \ {n},
                                       ![h].seen[n] = server_statuses[n]]
    /\ UNCHANGED <<algorithm, balancer, lastSel, hist, histCap, lastCall>>
    /\ UNCHANGED <<active_connections, acceptor, backendGuard, maxconn_errors>>
    /\ UNCHANGED healthVars
    /\ UNCHANGED extVars

\* the loop of lines 429-438 over the entries of a table
RECURSIVE update_all(_, _, _)
update_all(svs, tbl, names) ==
    IF names = {} THEN svs
    ELSE LET n == CHOOSE x \in names : TRUE
         IN  update_all(IF tbl[n] = Absent THEN svs
                        ELSE update_server_status(svs, n, tbl[n]),
                        tbl, names \ {n})

\* lines 415-441: update_server_statuses_from_health_checker as a whole.  The
\* read guard of the shared table is held from the first line to the last,
\* so no write of the table falls between its steps, and the caller holds
\* the backend's entry
UpdateStatuses ==
    /\ can_read(statusLock)
    /\ backendGuard = 0
    /\ servers' = update_all(servers, server_statuses, CheckedNames)
    /\ UNCHANGED <<algorithm, balancer, lastSel, hist, histCap, lastCall>>
    /\ UNCHANGED <<healthVars, proxyVars>>
    /\ UNCHANGED extVars

\* lines 407-411 and 446: the read guard is dropped and the picker is asked
HPick(h) ==
    /\ handler[h].pc = "copy"
    /\ handler[h].todo = {}
    /\ statusLock' = [statusLock EXCEPT !.readers = @ \ {h}]
    /\ \E rnd \in 0..(Len(servers) - 1) :
         LET r == select_server(algorithm, balancer, servers, rnd)
         IN  /\ balancer' = r.balancer
             /\ IF r.selected > 0
                THEN /\ handler' = [handler EXCEPT ![h].pc = "dial",
                                       ![h].server = servers[r.selected].name]
                     /\ hist' = Push(hist, servers[r.selected].name, histCap)
                     /\ UNCHANGED backendGuard
                ELSE /\ handler' = [handler EXCEPT ![h] = Returned(handler[h], "no_server")]
                     /\ backendGuard' = 0
                     /\ UNCHANGED hist
    /\ UNCHANGED <<servers, algorithm, lastSel, histCap, lastCall>>
    /\ UNCHANGED <<active_connections, acceptor, maxconn_errors>>
    /\ UNCHANGED <<health, sup, server_statuses, probeRun, maint>>
    /\ UNCHANGED extVars

DialOutcomes == {"connected", "connection_failed", "connection_timeout"}

\* a failed dial followed by a second attempt
dial_retry(t, outcome) ==
    IF outcome = "connected"
    THEN [HandlerFree EXCEPT !.pc = "pump", !.frontend = t.frontend, !.server = t.server]
    ELSE [t EXCEPT !.result = outcome]

\* lines 309-330: the match on the result of the bounded connect: the
\* stream, or the error with which handle_connection returns
dial(t, outcome) ==
    IF outcome = "connected"
    THEN [HandlerFree EXCEPT !.pc = "pump", !.frontend = t.frontend, !.server = t.server]
    ELSE Returned(t, outcome)

\* lines 307-331: the dial to the chosen server, bounded by connect_timeout
HDial(h) ==
    /\ handler[h].pc = "dial"
    /\ \E outcome \in DialOutcomes :
         /\ handler' = [handler EXCEPT ![h] = dial(handler[h], outcome)]
         /\ backendGuard' = IF handler'[h].pc = "closing" THEN 0 ELSE backendGuard
    /\ UNCHANGED <<active_connections, acceptor, maxconn_errors>>
    /\ UNCHANGED <<balVars, healthVars>>
    /\ UNCHANGED extVars

\* lines 333-372: the byte pump ends, handle_connection returns
HPump(h) ==
    /\ handler[h].pc = "pump"
    /\ \E outcome \in {"success", "proxy_error"} :
         handler' = [handler EXCEPT ![h] = Returned(handler[h], outcome)]
    /\ backendGuard' = 0
    /\ UNCHANGED <<active_connections, acceptor, maxconn_errors>>
    /\ UNCHANGED <<balVars, healthVars>>
    /\ UNCHANGED extVars

\* lines 245-253: the spawned task lowers its frontend's counter and ends
HClose(h) ==
    /\ handler[h].pc = "closing"
    /\ active_connections' = [active_connections EXCEPT ![handler[h].frontend] =
                                 saturating_sub(@, 1)]
    /\ handler' = [handler EXCEPT ![h] = HandlerFree]
    /\ UNCHANGED <<acceptor, backendGuard, maxconn_errors>>
    /\ UNCHANGED <<balVars, healthVars>>
    /\ UNCHANGED extVars

----------------------------------------------------------------------------
(* acl.rs and proxy.rs: ACLs and the choice of the backend.  Text is kept  *)
(* as the configuration gives it: a criterion is the sequence of its       *)
(* whitespace-separated parts, an address or a port is a string that the   *)
(* parsers below turn into a value.                                        *)

None == "none"

\* utils::parse_ip_or_cidr over the texts the configurations here use:
\* CIDR notation, a single address (a /32 network), or an error
parse_ip_or_cidr(input) ==
    CASE input = "10.0.0.0/8" ->
             [ok |-> TRUE, addr |-> <<10, 0, 0, 0>>, prefix |-> 8]
      [] input = "192.0.2.0/24" ->
             [ok |-> TRUE, addr |-> <<192, 0, 2, 0>>, prefix |-> 24]
      [] input = "192.0.2.5" ->
             [ok |-> TRUE, addr |-> <<192, 0, 2, 5>>, prefix |-> 32]
      [] OTHER -> [ok |-> FALSE, addr |-> <<0, 0, 0, 0>>, prefix |-> 0]

\* str::parse::<u16> over the texts the configurations here use
parse_port(input) ==
    CASE input = "40000" -> [ok |-> TRUE, port |-> 40000]
      [] input = "443" -> [ok |-> TRUE, port |-> 443]
      [] OTHER -> [ok |-> FALSE, port |-> 0]

\* utils::ip_in_network (IpNetwork::contains), for prefixes of whole octets
ip_in_network(ip, network) ==
    \A k \in 1..(network.prefix \div 8) : ip[k] = network.addr[k]

ParseError == [ok |-> FALSE, conditions |-> <<>>]

\* Acl::parse_criterion: the parts of the criterion to its conditions
parse_criterion(parts) ==
    IF Len(parts) = 0 THEN ParseError
    ELSE CASE parts[1] = "src" ->
                  IF Len(parts) < 2 THEN ParseError
                  ELSE LET network == parse_ip_or_cidr(parts[2])
                       IN  IF ~network.ok THEN ParseError
                           ELSE [ok |-> TRUE, conditions |->
                                   <<[tag |-> "SourceIp", network |-> network]>>]
           [] parts[1] = "src_port" ->
                  IF Len(parts) < 2 THEN ParseError
                  ELSE LET port == parse_port(parts[2])
                       IN  IF ~port.ok THEN ParseError
                           ELSE [ok |-> TRUE, conditions |->
                                   <<[tag |-> "SourcePort", port |-> port.port]>>]
           [] parts[1] = "dst_port" ->
                  IF Len(parts) < 2 THEN ParseError
                  ELSE LET port == parse_port(parts[2])
                       IN  IF ~port.ok THEN ParseError
                           ELSE [ok |-> TRUE, conditions |->
                                   <<[tag |-> "DestinationPort", port |-> port.port]>>]
           [] parts[1] = "hdr" ->
                  IF Len(parts) < 3 THEN ParseError
                  ELSE [ok |-> TRUE, conditions |->
                          <<[tag |-> "Header", name |-> parts[2], value |-> parts[3]]>>]
           [] parts[1] = "path" ->
                  IF Len(parts) < 2 THEN ParseError
                  ELSE [ok |-> TRUE, conditions |->
                          <<[tag |-> "Path", path |-> parts[2]]>>]
           [] parts[1] = "host" ->
                  IF Len(parts) < 2 THEN ParseError
                  ELSE [ok |-> TRUE, conditions |->
                          <<[tag |-> "Hostname", hostname |-> parts[2]]>>]
           [] OTHER -> [ok |-> TRUE, conditions |-> <<[tag |-> "Custom"]>>]

\* Acl::evaluate_condition with request_data = None, the only value the
\* proxy passes: the Hostname, Path and Header arms end in Ok(false)
Acl_evaluate_condition(condition, client_addr) ==
    CASE condition.tag = "SourceIp" -> ip_in_network(client_addr.ip, condition.network)
      [] condition.tag = "SourcePort" -> client_addr.port = condition.port
      [] condition.tag = "DestinationPort" -> TRUE
      [] condition.tag = "Hostname" -> FALSE
      [] condition.tag = "Path" -> FALSE
      [] condition.tag = "Header" -> FALSE
      [] condition.tag = "Custom" -> TRUE

\* Acl::evaluate: every condition must hold
Acl_evaluate(conditions, client_addr) ==
    \A k \in 1..Len(conditions) : Acl_evaluate_condition(conditions[k], client_addr)

\* ProxyServer::evaluate_acl: Acl::from_config, then evaluate(client_addr, None)
evaluate_acl(acl, client_addr) ==
    LET parsed == parse_criterion(acl.criterion)
    IN  IF ~parsed.ok THEN [ok |-> FALSE, value |-> FALSE]
        ELSE [ok |-> TRUE, value |-> Acl_evaluate(parsed.conditions, client_addr)]

\* ProxyServer::evaluate_condition: Ok(true) whatever the condition is
evaluate_condition(condition, client_addr) == TRUE

\* position of the first ACL that fails to parse or does not hold, 0 if none
FirstFailingAcl(acls, client_addr) ==
    LET fails(k) == LET r == evaluate_acl(acls[k], client_addr)
                    IN  ~r.ok \/ ~r.value
    IN  IF \E k \in 1..Len(acls) : fails(k)
        THEN CHOOSE k \in 1..Len(acls) : fails(k) /\ \A j \in 1..(k - 1) : ~fails(j)
        ELSE 0

\* position of the first use_backend rule that is taken, 0 if none
FirstRuleTaken(rules, client_addr) ==
    LET taken(k) == rules[k].condition # None
                       /\ evaluate_condition(rules[k].condition, client_addr)
    IN  IF \E k \in 1..Len(rules) : taken(k)
        THEN CHOOSE k \in 1..Len(rules) : taken(k) /\ \A j \in 1..(k - 1) : ~taken(j)
        ELSE 0

Routed(backend) == [ok |-> TRUE, backend |-> backend, error |-> None]
Refused(error) == [ok |-> FALSE, backend |-> None, error |-> error]

\* no call of select_backend has returned yet
Unrouted == Refused(Pending)

\* ProxyServer::select_backend
select_backend(frontend_config, client_addr) ==
    LET a == FirstFailingAcl(frontend_config.acl, client_addr)
        u == FirstRuleTaken(frontend_config.use_backend, client_addr)
    IN  IF a # 0
        THEN IF evaluate_acl(frontend_config.acl[a], client_addr).ok
             THEN Refused("access_denied") ELSE Refused("acl_error")
        ELSE IF u # 0 THEN Routed(frontend_config.use_backend[u].backend)
        ELSE IF frontend_config.default_backend # None
             THEN Routed(frontend_config.default_backend)
        ELSE Refused("no_backend")

\* the ACL lines and use_backend lines a frontend section is built from
AclPool ==
    { [name |-> "bad", criterion |-> <<"src", "10.0.0.0/8">>],
      [name |-> "web", criterion |-> <<"host", "example.com">>],
      [name |-> "api", criterion |-> <<"path", "/api">>],
      [name |-> "prod", criterion |-> <<"hdr", "x-env", "prod">>],
      [name |-> "geo", criterion |-> <<"geoip", "RU">>],
      [name |-> "eph", criterion |-> <<"src_port", "40000">>],
      [name |-> "tls", criterion |-> <<"dst_port", "443">>],
      [name |-> "cut", criterion |-> <<"src">>] }

RulePool ==
    { [backend |-> "be", condition |-> "if !bad"],
      [backend |-> "be2", condition |-> "if bad"],
      [backend |-> "be3", condition |-> "if eph"] }

ClientAddrs ==
    { [ip |-> <<10, 0, 0, 5>>, port |-> 40000],
      [ip |-> <<192, 0, 2, 5>>, port |-> 40000],
      [ip |-> <<192, 0, 2, 5>>, port |-> 50123] }

\* the ports the frontend's listeners are bound to
LocalPorts == {443, 8080}

SeqsUpTo(S, n) == UNION {[1..k -> S] : k \in 0..n}

FrontendConfigs ==
    [acl : SeqsUpTo(AclPool, MaxAcls), use_backend : SeqsUpTo(RulePool, MaxRules),
     default_backend : {None, "dflt"}]

\* handle_connection calls select_backend for the connection's frontend
Route ==
    /\ route.result = Unrouted
    /\ route' = [route EXCEPT !.result =
                    select_backend(route.frontend_config, route.client_addr)]
    /\ UNCHANGED <<ddosVars, run, pump, conf, parse, peerVars, balVars, healthVars, proxyVars>>

----------------------------------------------------------------------------
(* proxy.rs: the errors of the accept loop and of the handler before a     *)
(* backend is chosen, and the shutdown of ProxyServer::run                 *)

\* the frontend sections of the running system: both send to `be`, fe1
\* behind an ACL on the source port
FrontendConfigOf(f) ==
    IF f = "fe1"
    THEN [acl |-> <<[name |-> "eph", criterion |-> <<"src_port", "40000">>]>>,
          use_backend |-> <<>>, default_backend |-> "be"]
    ELSE [acl |-> <<>>, use_backend |-> <<>>, default_backend |-> "be"]

\* the tasks a worker thread is polling.  A handler leaves its thread only
\* at an await that is pending: before its first poll, during the dial and
\* during the pump; an accept loop only in listener.accept().  A handler
\* inside backends.get_mut while another handler holds the entry keeps its
\* thread: DashMap waits for the entry on the calling thread
PollingHandlers ==
    {h \in Slots : handler[h].pc \in {"guard_wait", "read_wait", "copy", "closing"}}

PollingLoops == {l \in Listeners : acceptor[l].pc \in {"read", "check"}}

\* a task that is woken is polled by a worker thread that has no task
ThreadFree ==
    Cardinality(PollingHandlers) + Cardinality(PollingLoops) < conf.worker_threads

\* line 279: backends.get_mut is called while another handler holds the
\* entry (it keeps it across every await up to its return): the call does
\* not return, and the worker thread that polled this handler stays in it
HBlock(h) ==
    /\ handler[h].pc = "start"
    /\ backendGuard # 0
    /\ handler' = [handler EXCEPT ![h].pc = "guard_wait"]
    /\ UNCHANGED <<active_connections, acceptor, backendGuard, maxconn_errors>>
    /\ UNCHANGED <<balVars, healthVars>>
    /\ UNCHANGED extVars

\* line 279: the entry has been released, the blocked get_mut returns with it
HUnblock(h) ==
    /\ handler[h].pc = "guard_wait"
    /\ backendGuard = 0
    /\ backendGuard' = h
    /\ handler' = [handler EXCEPT ![h].pc = "read_wait",
                                  ![h].avoid = {n \in CheckedNames :
                                                  server_statuses[n] = "Down"}]
    /\ UNCHANGED <<active_connections, acceptor, maxconn_errors>>
    /\ UNCHANGED <<balVars, healthVars>>
    /\ UNCHANGED extVars

\* ProxyServer::run waits for the shutdown signal; no count logged yet
Run_new == [pc |-> "serving", active_conns |-> 0]

\* the runtime is alive until run, and with it main, has returned
Alive == run.pc # "stopped"

\* line 201: listener.accept() returns an error, `?` ends accept_connections
\* and the listener's task with it (lines 176-189 log the error)
AcceptError(l) ==
    /\ acceptor[l].pc = "accept"
    /\ acceptor' = [acceptor EXCEPT ![l].pc = "ended"]
    /\ UNCHANGED <<active_connections, handler, backendGuard, maxconn_errors>>
    /\ UNCHANGED <<balVars, healthVars>>
    /\ UNCHANGED extVars

\* a handler awaited by the accept loop itself: its error returns through
\* the loop and ends it
HRefuse_propagating(h) ==
    /\ handler[h].pc = "start"
    /\ \E client_addr \in ClientAddrs :
         LET r == select_backend(FrontendConfigOf(handler[h].frontend), client_addr)
         IN  /\ ~r.ok
             /\ handler' = [handler EXCEPT ![h] = Returned(handler[h], r.error)]
    /\ acceptor' = [l \in Listeners |->
           IF ListenerFrontend(l) = handler[h].frontend
           THEN [acceptor[l] EXCEPT !.pc = "ended"] ELSE acceptor[l]]
    /\ UNCHANGED <<active_connections, backendGuard, maxconn_errors>>
    /\ UNCHANGED <<balVars, healthVars>>
    /\ UNCHANGED extVars

\* line 276: select_backend returns an error for the connection's client,
\* `?` ends handle_connection before any backend entry is taken
HRefuse(h) ==
    /\ handler[h].pc = "start"
    /\ \E client_addr \in ClientAddrs :
         LET r == select_backend(FrontendConfigOf(handler[h].frontend), client_addr)
         IN  /\ ~r.ok
             /\ handler' = [handler EXCEPT ![h] = Returned(handler[h], r.error)]
    /\ UNCHANGED <<active_connections, acceptor, backendGuard, maxconn_errors>>
    /\ UNCHANGED <<balVars, healthVars>>
    /\ UNCHANGED extVars

\* line 82: shutdown_signal.await returns: SIGINT or SIGTERM was received
ShutdownSignal ==
    /\ run.pc = "serving"
    /\ run' = [run EXCEPT !.pc = "signalled"]
    /\ UNCHANGED <<ddosVars, route, pump, conf, parse, peerVars, balVars, healthVars, proxyVars>>

\* lines 85-86: the counters are summed under the read lock and logged
ShutdownLog ==
    /\ run.pc = "signalled"
    /\ run' = [pc |-> "logged", active_conns |-> SumConnections(active_connections)]
    /\ UNCHANGED <<ddosVars, route, pump, conf, parse, peerVars, balVars, healthVars, proxyVars>>

\* lines 89-94: the run_frontend tasks are aborted (each of them returned
\* once it had spawned its accept loops, lines 164-188, so nothing is
\* stopped by it), run returns, main returns and the runtime is dropped
\* with every task still in it
ShutdownReturn ==
    /\ run.pc = "logged"
    /\ run' = [run EXCEPT !.pc = "stopped"]
    /\ UNCHANGED <<ddosVars, route, pump, conf, parse, peerVars, balVars, healthVars, proxyVars>>

----------------------------------------------------------------------------
(* proxy.rs: proxy_data_with_timeouts, the byte pump.  Each direction is   *)
(* tokio::time::timeout(.., tokio::io::copy(..)): it is copying, or it has  *)
(* ended with Ok(Ok(bytes)) at EOF, with Ok(Err(e)) on an I/O error, or     *)
(* with Err(Elapsed) when its timeout fired first.                          *)

Directions == {"client_to_server", "server_to_client"}

Copy_new == [status |-> "copying", bytes |-> 0]

PumpOk(a, b) == [ok |-> TRUE, error |-> None, bytes |-> <<a, b>>]
PumpErr(error) == [ok |-> FALSE, error |-> error, bytes |-> <<0, 0>>]

\* try_join! has not returned yet
Joining == PumpErr(Pending)

Pump_new ==
    [client_to_server |-> Copy_new, server_to_client |-> Copy_new, returned |-> Joining,
     reason |-> None]

\* lines 343-370: the status with which handle_connection reports what the
\* pump returned (request_completed, and request_failed on an Err)
request_status(proxy_result) ==
    IF proxy_result = Joining THEN None
    ELSE IF proxy_result.ok THEN "success"
    ELSE "proxy_error"

\* lines 491-504: try_join! returns at once when a branch is Err (only the
\* Elapsed of a timeout is), otherwise when both branches are done; then
\* the match on the pair of inner results
try_join(c2s, s2c) ==
    IF c2s.status = "elapsed" \/ s2c.status = "elapsed"
    THEN PumpErr("transfer_timeout")
    ELSE IF c2s.status = "copying" \/ s2c.status = "copying" THEN Joining
    ELSE IF c2s.status = "error" THEN PumpErr("client_to_server_failed")
    ELSE IF s2c.status = "error" THEN PumpErr("server_to_client_failed")
    ELSE PumpOk(c2s.bytes, s2c.bytes)

\* tokio::io::copy moves one more byte in direction d
PumpCopy(d) ==
    /\ pump.returned = Joining
    /\ pump[d].status = "copying"
    /\ pump[d].bytes < MaxBytes
    /\ pump' = [pump EXCEPT ![d].bytes = @ + 1]
    /\ UNCHANGED <<ddosVars, route, run, conf, parse, peerVars, balVars, healthVars, proxyVars>>

\* direction d ends, by EOF, by an I/O error or by its timeout, and
\* try_join! is polled with the result; when it returns, handle_connection
\* reports the outcome
PumpEnd(d) ==
    /\ pump.returned = Joining
    /\ pump[d].status = "copying"
    /\ \E how \in {"eof", "error", "elapsed"} :
         LET p == [pump EXCEPT ![d].status = how]
             r == try_join(p.client_to_server, p.server_to_client)
         IN  pump' = [p EXCEPT !.returned = r, !.reason = request_status(r)]
    /\ UNCHANGED <<ddosVars, route, run, conf, parse, peerVars, balVars, healthVars, proxyVars>>

----------------------------------------------------------------------------
(* config.rs: the options of a `server` line of a backend section.  A line  *)
(* is the sequence of its whitespace-separated parts after the directive:  *)
(* the name, the address, then the options.                                *)

Some(v) == <<v>>
Nothing == <<>>

Flags == {"check", "backup", "disabled"}
Valued == {"weight", "maxconn", "inter", "rise", "fall"}
OptionNames == Flags \cup Valued

\* str::parse::<u32>() of the numbers a line of the model carries
parse_u32(text, default) ==
    CASE text = "3" -> 3
      [] text = "4" -> 4
      [] text = "5" -> 5
      [] text = "50" -> 50
      [] OTHER -> default

\* lines 680-692
ServerConfig_new ==
    [weight |-> Some(1), maxconn |-> Nothing, check |-> Nothing, inter |-> Nothing,
     rise |-> Nothing, fall |-> Nothing, backup |-> Nothing, disabled |-> Nothing]

\* what an arm of lines 697-737 stores for a valued option
option_value(part, text) ==
    CASE part = "weight" -> Some(parse_u32(text, 1))
      [] part = "maxconn" -> Some(parse_u32(text, 1000))
      [] part = "inter" -> Some(text)
      [] part = "rise" -> Some(parse_u32(text, 2))
      [] part = "fall" -> Some(parse_u32(text, 3))

\* lines 694-750: the loop over the parts, i counted from 1.  The arm of a
\* valued option does `i += 2` inside its `if` and `i += 1` after it
RECURSIVE parse_server_options(_, _, _)
parse_server_options(parts, i, server) ==
    IF i > Len(parts) THEN server
    ELSE LET part == parts[i]
         IN  IF part \in Valued
             THEN IF i + 1 <= Len(parts)
                  THEN parse_server_options(parts, i + 2 + 1,
                           [server EXCEPT ![part] = option_value(part, parts[i + 1])])
                  ELSE parse_server_options(parts, i + 1, server)
             ELSE IF part \in Flags
             THEN parse_server_options(parts, i + 1, [server EXCEPT ![part] = Some(TRUE)])
             ELSE parse_server_options(parts, i + 1, server)

\* the text written after a valued option in the lines of the model
ValueText(o) ==
    CASE o = "weight" -> "3"
      [] o = "maxconn" -> "50"
      [] o = "inter" -> "200ms"
      [] o = "rise" -> "4"
      [] o = "fall" -> "5"

RECURSIVE OptionParts(_)
OptionParts(opts) ==
    IF opts = <<>> THEN <<>>
    ELSE (IF Head(opts) \in Valued THEN <<Head(opts), ValueText(Head(opts))>>
          ELSE <<Head(opts)>>) \o OptionParts(Tail(opts))

\* the lines with up to MaxOptions different options, in any order
ServerLines ==
    {<<"s1", "10.0.0.1:8080">> \o OptionParts(opts) :
        opts \in {q \in UNION {[1..k -> OptionNames] : k \in 0..MaxOptions} :
                    \A a, b \in DOMAIN q : a # b => q[a] # q[b]}}

Parse_new == [parts |-> <<>>, server |-> ServerConfig_new]

\* parse_backend_directive reads the server line under observation
ParseServerLine ==
    /\ parse = Parse_new
    /\ \E parts \in ServerLines :
         parse' = [parts |-> parts,
                   server |-> parse_server_options(parts, 3, ServerConfig_new)]
    /\ UNCHANGED <<ddosVars, route, run, pump, conf, peerVars, balVars, healthVars, proxyVars>>

----------------------------------------------------------------------------
(* ddos_protection.rs: DdosProtection.  The configuration has an allow     *)
(* list, a deny list, and both per-IP limits set.                          *)

Clients == {"198.51.100.1", "198.51.100.2", "203.0.113.7", "203.0.113.9"}
whitelist == {"198.51.100.1", "198.51.100.2"}
blacklist == {"198.51.100.2", "203.0.113.7"}
max_requests_per_minute == 2
max_connections_per_ip == 2

\* a list that holds nobody
contains_nothing(list, ip) == FALSE

\* Vec::contains
contains(list, ip) == ip \in list

IpActivity_default == [request_count |-> 0, connection_count |-> 0]

DdosProtection_new == [ip \in {} |-> IpActivity_default]

\* self.activity.entry(client_ip).or_insert_with(IpActivity::default)
or_insert_default(tbl, ip) ==
    IF ip \in DOMAIN tbl THEN tbl
    ELSE [k \in DOMAIN tbl \cup {ip} |-> IF k = ip THEN IpActivity_default ELSE tbl[k]]

\* minute_passed: whether 60 s or more have gone by since last_request_time
DdosProtection_check_rate_limit(tbl, ip, minute_passed) ==
    IF contains(whitelist, ip) THEN [activity |-> tbl, result |-> TRUE]
    ELSE IF contains(blacklist, ip) THEN [activity |-> tbl, result |-> FALSE]
    ELSE LET t1 == or_insert_default(tbl, ip)
             t2 == IF minute_passed THEN [t1 EXCEPT ![ip].request_count = 0] ELSE t1
         IN  IF t2[ip].request_count >= max_requests_per_minute
             THEN [activity |-> t2, result |-> FALSE]
             ELSE [activity |-> [t2 EXCEPT ![ip].request_count = @ + 1],
                   result |-> TRUE]

\* the limit test taken one connection too far
DdosProtection_check_connection_limit_over(tbl, ip) ==
    IF contains(whitelist, ip) THEN [activity |-> tbl, result |-> TRUE]
    ELSE IF contains(blacklist, ip) THEN [activity |-> tbl, result |-> FALSE]
    ELSE LET t1 == or_insert_default(tbl, ip)
         IN  IF t1[ip].connection_count > max_connections_per_ip
             THEN [activity |-> t1, result |-> FALSE]
             ELSE [activity |-> [t1 EXCEPT ![ip].connection_count = @ + 1],
                   result |-> TRUE]

\* lines 90-111.  The RefMut that entry(..).or_insert_with(..) returns keeps
\* the entry's shard locked until the function returns: the test and the
\* increment are not separated by any other call on the same IP
DdosProtection_check_connection_limit(tbl, ip) ==
    IF contains(whitelist, ip) THEN [activity |-> tbl, result |-> TRUE]
    ELSE IF contains(blacklist, ip) THEN [activity |-> tbl, result |-> FALSE]
    ELSE LET t1 == or_insert_default(tbl, ip)
         IN  IF t1[ip].connection_count >= max_connections_per_ip
             THEN [activity |-> t1, result |-> FALSE]
             ELSE [activity |-> [t1 EXCEPT ![ip].connection_count = @ + 1],
                   result |-> TRUE]

DdosProtection_connection_closed(tbl, ip) ==
    IF ip \in DOMAIN tbl /\ tbl[ip].connection_count > 0
    THEN [tbl EXCEPT ![ip].connection_count = @ - 1]
    ELSE tbl

DdosProtection_reset_counters(tbl) ==
    [ip \in DOMAIN tbl |-> [request_count |-> 0, connection_count |-> 0]]

NoDdosCall == [op |-> "none", ip |-> "none", result |-> TRUE]

DdosCheckRate ==
    \E ip \in Clients, minute_passed \in BOOLEAN :
        LET r == DdosProtection_check_rate_limit(activity, ip, minute_passed)
        IN  /\ activity' = r.activity
            /\ ddosLast' = [op |-> "check_rate_limit", ip |-> ip, result |-> r.result]
            /\ UNCHANGED <<ddosOpen, route, run, pump, conf, parse, peerVars, balVars, healthVars, proxyVars>>

\* a client connects and is admitted or turned away
DdosCheckConnection ==
    \E ip \in Clients :
        LET r == DdosProtection_check_connection_limit(activity, ip)
        IN  /\ ddosOpen[ip] < MaxOpen
            /\ activity' = r.activity
            /\ ddosOpen' = IF r.result THEN [ddosOpen EXCEPT ![ip] = @ + 1] ELSE ddosOpen
            /\ ddosLast' = [op |-> "check_connection_limit", ip |-> ip,
                            result |-> r.result]
            /\ UNCHANGED <<route, run, pump, conf, parse, peerVars, balVars, healthVars, proxyVars>>

\* an admitted connection ends: connection_closed is called once for it
DdosConnectionClosed ==
    \E ip \in Clients :
        /\ ddosOpen[ip] > 0
        /\ activity' = DdosProtection_connection_closed(activity, ip)
        /\ ddosOpen' = [ddosOpen EXCEPT ![ip] = @ - 1]
        /\ ddosLast' = [op |-> "connection_closed", ip |-> ip, result |-> TRUE]
        /\ UNCHANGED <<route, run, pump, conf, parse, peerVars, balVars, healthVars, proxyVars>>

\* the periodic sweep
DdosResetCounters ==
    /\ activity' = DdosProtection_reset_counters(activity)
    /\ ddosLast' = [op |-> "reset_counters", ip |-> "none", result |-> TRUE]
    /\ UNCHANGED <<ddosOpen, route, run, pump, conf, parse, peerVars, balVars, healthVars, proxyVars>>

RouteIdle ==
    [frontend_config |-> "none", client_addr |-> "none", local_port |-> 0,
     result |-> Unrouted]

DdosIdle ==
    /\ activity = DdosProtection_new
    /\ ddosOpen = [ip \in Clients |-> 0]
    /\ ddosLast = NoDdosCall

\* the components the running system never calls, and no backend choice
\* under observation
OffIdle ==
    /\ DdosIdle
    /\ route = RouteIdle
    /\ run = Run_new
    /\ pump = Pump_new
    /\ parse = Parse_new
    /\ PeerIdle

\* the same, under a configuration with `maxconn` MaxConn
ExtIdle == OffIdle /\ conf = [maxconn |-> MaxConn, worker_threads |-> 1]

----------------------------------------------------------------------------
(* Initial states of the running system *)

\* ProxyServer::new and run: maps empty, tasks spawned, balancer built from
\* the backend's server list
InitSys ==
    /\ servers = [i \in 1..Len(ConfigServers) |->
                    ServerState_new(ConfigServers[i].name, ConfigServers[i].weight,
                                    ConfigServers[i].backup, ConfigServers[i].disabled)]
    /\ algorithm = "roundrobin"
    /\ balancer = Balancer_new
    /\ lastSel = Pending
    /\ hist = <<>>
    /\ histCap = 0
    /\ lastCall = NoCall
    /\ health = HealthChecker_new
    /\ sup = Supervisor_new
    /\ server_statuses = [n \in CheckedNames |-> Absent]
    /\ statusLock = [writer |-> FALSE, readers |-> {}]
    /\ probeRun = NoRun
    /\ maint = [n \in CheckedNames |-> "none"]
    /\ active_connections = [f \in Frontends |-> 0]
    /\ acceptor = [l \in Listeners |-> Acceptor_new]
    /\ handler = [h \in Slots |-> HandlerFree]
    /\ backendGuard = 0
    /\ maxconn_errors = 0
    /\ ExtIdle

\* the same system once the first cycle, with every probe a success, has
\* been published
AfterFirstCycle ==
    [n \in CheckedNames |-> check_server_health(HealthState_default, TRUE)]

Published ==
    /\ servers = [i \in 1..Len(ConfigServers) |->
                    ServerState_new(ConfigServers[i].name, ConfigServers[i].weight,
                                    ConfigServers[i].backup, ConfigServers[i].disabled)]
    /\ algorithm = "roundrobin"
    /\ balancer = Balancer_new
    /\ lastSel = Pending
    /\ hist = <<>>
    /\ histCap = 0
    /\ lastCall = NoCall
    /\ health = AfterFirstCycle
    /\ sup = [Supervisor_new EXCEPT !.updated_servers = AfterFirstCycle,
                                    !.k = Len(ConfigServers) + 1,
                                    !.probed = CheckedNames,
                                    !.outcome = "published"]
    /\ server_statuses = [n \in CheckedNames |-> "Up"]
    /\ statusLock = [writer |-> FALSE, readers |-> {}]
    /\ probeRun = [n \in CheckedNames |->
                      [failed |-> 0, succeeded |-> 1,
                       failed_since |-> 0, succeeded_since |-> 1]]
    /\ maint = [n \in CheckedNames |-> "none"]
    /\ active_connections = [f \in Frontends |-> 0]
    /\ acceptor = [l \in Listeners |-> Acceptor_new]
    /\ handler = [h \in Slots |-> HandlerFree]
    /\ backendGuard = 0
    /\ maxconn_errors = 0

InitProxy == Published /\ ExtIdle

\* the same system under a configuration that admits as many connections
\* as there are handler tasks
InitExec ==
    /\ Published
    /\ OffIdle
    /\ conf \in [maxconn : {Cardinality(Slots)}, worker_threads : 1..MaxWorkers]

\* the global section's rate limit, as parse_rate_limit_config reads it
requests_per_second == 1
burst_size == 1

\* the published system with `rate-limit` configured and the selections of
\* the handlers kept; every client connection comes from one source address
InitRate ==
    /\ servers = [i \in 1..Len(ConfigServers) |->
                    ServerState_new(ConfigServers[i].name, ConfigServers[i].weight,
                                    ConfigServers[i].backup, ConfigServers[i].disabled)]
    /\ algorithm = "roundrobin"
    /\ balancer = Balancer_new
    /\ lastSel = Pending
    /\ hist = <<>>
    /\ histCap = HistLen
    /\ lastCall = NoCall
    /\ health = AfterFirstCycle
    /\ sup = [Supervisor_new EXCEPT !.updated_servers = AfterFirstCycle,
                                    !.k = Len(ConfigServers) + 1,
                                    !.probed = CheckedNames,
                                    !.outcome = "published"]
    /\ server_statuses = [n \in CheckedNames |-> "Up"]
    /\ statusLock = [writer |-> FALSE, readers |-> {}]
    /\ probeRun = [n \in CheckedNames |->
                      [failed |-> 0, succeeded |-> 1,
                       failed_since |-> 0, succeeded_since |-> 1]]
    /\ maint = [n \in CheckedNames |-> "none"]
    /\ active_connections = [f \in Frontends |-> 0]
    /\ acceptor = [l \in Listeners |-> Acceptor_new]
    /\ handler = [h \in Slots |-> HandlerFree]
    /\ backendGuard = 0
    /\ maxconn_errors = 0
    /\ ExtIdle

\* the health supervisor and the proxy before anything has run
ProxyIdle ==
    /\ health = HealthChecker_new
    /\ sup = Supervisor_new
    /\ server_statuses = [n \in CheckedNames |-> Absent]
    /\ statusLock = [writer |-> FALSE, readers |-> {}]
    /\ probeRun = NoRun
    /\ maint = [n \in CheckedNames |-> "none"]
    /\ active_connections = [f \in Frontends |-> 0]
    /\ acceptor = [l \in Listeners |-> Acceptor_new]
    /\ handler = [h \in Slots |-> HandlerFree]
    /\ backendGuard = 0
    /\ maxconn_errors = 0

\* the parts of the system a pool driven on its own does not touch
SysIdle == ProxyIdle /\ ExtIdle

NextSup ==
    \/ SupBegin \/ SupProbe \/ SupSave
    \/ SupPublishAcquire \/ SupPublishInsert \/ SupPublishRelease

\* the supervisor and the administrator
NextHealth == NextSup \/ AdminSetMaintenance

\* the supervisors of both backends, and the handlers' refresh of the
\* balancer's statuses
NextTable == NextSup \/ NextPeer \/ UpdateStatuses

\* the supervisor, and listener l1 with one handler at a time
NextShare ==
    \/ NextSup
    \/ AcceptConn("l1") \/ ReadCount("l1") \/ Admit("l1", {1})
    \/ HGuard(1) \/ HReadAcquire(1) \/ HCopy(1) \/ HPick(1)
    \/ HDial(1) \/ HPump(1) \/ HClose(1)

\* the administrator's first call for a checked server, or a call for a
\* server that is not checked
AdminFirst == (\A n \in CheckedNames : maint[n] = "none") /\ AdminSetMaintenance

\* the supervisor, the administrator, and the handlers' refresh of the
\* balancer's statuses
NextAdmin == NextSup \/ AdminFirst \/ UpdateStatuses

\* both listeners and every handler
NextProxy ==
    \/ \E l \in Listeners :
          AcceptConn(l) \/ ReadCount(l) \/ Reject(l) \/ Admit(l, Slots)
    \/ \E h \in Slots :
          \/ HGuard(h) \/ HReadAcquire(h) \/ HCopy(h) \/ HPick(h)
          \/ HDial(h) \/ HPump(h) \/ HClose(h)

\* listener l1 with one handler at a time
NextRate ==
    \/ AcceptConn("l1") \/ ReadCount("l1") \/ Reject("l1") \/ Admit("l1", {1})
    \/ HGuard(1) \/ HReadAcquire(1) \/ HCopy(1) \/ HPick(1)
    \/ HDial(1) \/ HPump(1) \/ HClose(1)

\* both listeners and every handler, with the errors of either
NextRun ==
    \/ NextProxy
    \/ \E l \in Listeners : AcceptError(l)
    \/ \E h \in Slots : HRefuse(h)

\* listener l1 with one handler at a time, and the shutdown of run; nothing
\* runs once the runtime is gone
NextStop ==
    \/ Alive /\ NextRate
    \/ ShutdownSignal \/ ShutdownLog \/ ShutdownReturn

\* the steps of handler h on the worker threads: a poll that begins needs
\* a free thread, a poll under way goes on with the thread it has
HandlerStep(h) ==
    \/ ThreadFree /\ HGuard(h)
    \/ ThreadFree /\ HBlock(h)
    \/ HUnblock(h)
    \/ HReadAcquire(h)
    \/ HCopy(h)
    \/ HPick(h)
    \/ ThreadFree /\ HDial(h)
    \/ ThreadFree /\ HPump(h)
    \/ HClose(h)

\* the rest of the poll of an accept loop that has accepted a connection
LoopPoll(l) ==
    ReadCount(l) \/ Reject(l) \/ RejectUncounted(l) \/ Admit(l, Slots)

LoopStep(l) == (ThreadFree /\ AcceptConn(l)) \/ LoopPoll(l)

\* both listeners and every handler, polled by the worker threads
NextExec ==
    \/ \E l \in Listeners : LoopStep(l)
    \/ \E h \in Slots : HandlerStep(h)

SpecExec == InitExec /\ [][NextExec]_vars

\* every handler is polled again and again whenever it can be (a timer or
\* its socket wakes it: the dial and both copies end by their timeouts), and
\* a poll of an accept loop runs to its next accept
SpecExecFair ==
    /\ SpecExec
    /\ \A h \in Slots : SF_vars(HandlerStep(h))
    /\ \A l \in Listeners : WF_vars(LoopPoll(l))

SpecRun == InitProxy /\ [][NextRun]_vars
SpecStop == InitProxy /\ [][NextStop]_vars
\* the supervisor of HealthChecker::start and the administrator
NextStart == StartBegin \/ SupProbe \/ StartSave \/ StartAdmin

SpecStart == InitSys /\ [][NextStart]_vars
SpecHealth == InitSys /\ [][NextHealth]_vars
SpecRate == InitRate /\ [][NextRate]_vars
SpecShare == InitSys /\ [][NextShare]_vars
SpecTable == InitSys /\ [][NextTable]_vars
SpecAdmin == InitSys /\ [][NextAdmin]_vars
SpecProxy == InitProxy /\ [][NextProxy]_vars

----------------------------------------------------------------------------
(* The pool driven directly through its public operations *)

PoolSelect ==
    \E rnd \in 0..(Len(servers) - 1) :
        LET r == select_server(algorithm, balancer, servers, rnd)
        IN  /\ balancer' = r.balancer
            /\ lastSel' = SelectedName(servers, r.selected)
            /\ hist' = Push(hist, SelectedName(servers, r.selected), histCap)
            /\ UNCHANGED <<servers, algorithm, histCap, lastCall, healthVars, proxyVars>>
            /\ UNCHANGED extVars

PoolUpdateStatus ==
    \E i \in 1..Len(servers), st \in Statuses :
        /\ servers[i].status # st
        /\ servers' = update_server_status(servers, servers[i].name, st)
        /\ lastSel' = Pending
        /\ hist' = IF EligibleNames(servers') = EligibleNames(servers) THEN hist ELSE <<>>
        /\ UNCHANGED <<algorithm, balancer, histCap, lastCall, healthVars, proxyVars>>
        /\ UNCHANGED extVars

PoolIncrement ==
    \E name \in {servers[i].name : i \in 1..Len(servers)} \cup {"absent"} :
        /\ \A i \in 1..Len(servers) :
               servers[i].name = name => servers[i].active_connections < MaxActive
        /\ servers' = increment_server_connections(servers, name)
        /\ lastCall' = [op |-> "increment", name |-> name, before |-> Counters(servers)]
        /\ UNCHANGED <<algorithm, balancer, lastSel, hist, histCap, healthVars, proxyVars>>
        /\ UNCHANGED extVars

PoolDecrement ==
    \E name \in {servers[i].name : i \in 1..Len(servers)} \cup {"absent"} :
        /\ servers' = decrement_server_connections(servers, name)
        /\ lastCall' = [op |-> "decrement", name |-> name, before |-> Counters(servers)]
        /\ UNCHANGED <<algorithm, balancer, lastSel, hist, histCap, healthVars, proxyVars>>
        /\ UNCHANGED extVars

\* BackendLoadBalancer::new over a configured server list
BackendLoadBalancer_new(n, w, b, d) ==
    [i \in 1..n |-> ServerState_new(PoolNames[i], w[i], i \in b, i \in d)]

\* any two-server backend, any balance directive
InitBal ==
    /\ \E w \in [1..2 -> 0..MaxWeight], b \in SUBSET (1..2), d \in SUBSET (1..2) :
           servers = BackendLoadBalancer_new(2, w, b, d)
    /\ algorithm \in Algorithms
    /\ balancer = Balancer_new
    /\ lastSel = Pending
    /\ hist = <<>>
    /\ histCap = 0
    /\ lastCall = NoCall
    /\ SysIdle

\* three primary servers of any weights under `balance roundrobin`
InitRR ==
    /\ \E w \in [1..3 -> 0..MaxWeight] :
           servers = BackendLoadBalancer_new(3, w, {}, {})
    /\ algorithm = "roundrobin"
    /\ balancer = Balancer_new
    /\ lastSel = Pending
    /\ hist = <<>>
    /\ histCap = HistLen
    /\ lastCall = NoCall
    /\ SysIdle

\* three servers of weight 1, counters driven by increment and decrement
InitPool ==
    /\ servers = BackendLoadBalancer_new(3, [i \in 1..3 |-> 1], {}, {})
    /\ algorithm = "roundrobin"
    /\ balancer = Balancer_new
    /\ lastSel = Pending
    /\ hist = <<>>
    /\ histCap = 0
    /\ lastCall = NoCall
    /\ SysIdle

\* three primary servers of any weights under `balance weighted_roundrobin`
InitWRR ==
    /\ \E w \in [1..3 -> 0..MaxWeight] :
           servers = BackendLoadBalancer_new(3, w, {}, {})
    /\ algorithm = "weighted_roundrobin"
    /\ balancer = Balancer_new
    /\ lastSel = Pending
    /\ hist = <<>>
    /\ histCap = HistLen
    /\ lastCall = NoCall
    /\ SysIdle

\* three servers of weight 1 under `balance leastconn`, the third disabled
\* or not
InitLC ==
    /\ \E d \in SUBSET {3} :
           servers = BackendLoadBalancer_new(3, [i \in 1..3 |-> 1], {}, d)
    /\ algorithm = "leastconn"
    /\ balancer = Balancer_new
    /\ lastSel = Pending
    /\ hist = <<>>
    /\ histCap = 0
    /\ lastCall = NoCall
    /\ SysIdle

\* three primary servers of weight 1 under `balance source`; every
\* select_server call is made for a connection of one and the same client
InitSrc ==
    /\ servers = BackendLoadBalancer_new(3, [i \in 1..3 |-> 1], {}, {})
    /\ algorithm = "source"
    /\ balancer = Balancer_new
    /\ lastSel = Pending
    /\ hist = <<>>
    /\ histCap = HistLen
    /\ lastCall = NoCall
    /\ SysIdle

NextBal == PoolSelect \/ PoolUpdateStatus
NextLC == PoolSelect \/ PoolUpdateStatus \/ PoolIncrement \/ PoolDecrement
NextPool == PoolIncrement \/ PoolDecrement

SpecBal == InitBal /\ [][NextBal]_vars
SpecRR == InitRR /\ [][NextBal]_vars
SpecWRR == InitWRR /\ [][NextBal]_vars
SpecSrc == InitSrc /\ [][NextBal]_vars
SpecPool == InitPool /\ [][NextPool]_vars

\* DdosProtection driven through its public operations
InitDdos ==
    /\ servers = BackendLoadBalancer_new(3, [i \in 1..3 |-> 1], {}, {})
    /\ algorithm = "roundrobin"
    /\ balancer = Balancer_new
    /\ lastSel = Pending
    /\ hist = <<>>
    /\ histCap = 0
    /\ lastCall = NoCall
    /\ SysIdle

NextDdos ==
    DdosCheckRate \/ DdosCheckConnection \/ DdosConnectionClosed \/ DdosResetCounters

SpecDdos == InitDdos /\ [][NextDdos]_vars

\* connections opened and closed, without the periodic sweep
NextConn == DdosCheckConnection \/ DdosConnectionClosed

SpecConn == InitDdos /\ [][NextConn]_vars

\* one select_backend call, for any frontend section built from the pools
\* and any of the client addresses
InitRoute ==
    /\ servers = BackendLoadBalancer_new(3, [i \in 1..3 |-> 1], {}, {})
    /\ algorithm = "roundrobin"
    /\ balancer = Balancer_new
    /\ lastSel = Pending
    /\ hist = <<>>
    /\ histCap = 0
    /\ lastCall = NoCall
    /\ ProxyIdle
    /\ DdosIdle
    /\ run = Run_new
    /\ pump = Pump_new
    /\ parse = Parse_new
    /\ PeerIdle
    /\ conf = [maxconn |-> MaxConn, worker_threads |-> 1]
    /\ route \in [frontend_config : FrontendConfigs, client_addr : ClientAddrs,
                   local_port : LocalPorts, result : {Unrouted}]

NextRoute == Route

\* one byte pump between an accepted client and a dialled server
InitPump ==
    /\ servers = BackendLoadBalancer_new(3, [i \in 1..3 |-> 1], {}, {})
    /\ algorithm = "roundrobin"
    /\ balancer = Balancer_new
    /\ lastSel = Pending
    /\ hist = <<>>
    /\ histCap = 0
    /\ lastCall = NoCall
    /\ SysIdle

NextPump == \E d \in Directions : PumpCopy(d) \/ PumpEnd(d)

SpecPump == InitPump /\ [][NextPump]_vars

\* the parser of the server lines on its own
NextParse == ParseServerLine

SpecParse == InitPump /\ [][NextParse]_vars

SpecRoute == InitRoute /\ [][NextRoute]_vars
SpecLC == InitLC /\ [][NextLC]_vars

----------------------------------------------------------------------------
(* Properties of the policies and of the pool *)

Named(name) == {i \in 1..Len(servers) : servers[i].name = name}

\* C1: select_server, under every policy the factory creates, returns only a
\* server whose status is Up; a returned non-backup server is neither disabled
\* nor of weight 0; a backup server is returned only when no server is Up, not
\* disabled, not backup and of weight > 0.
C1_OnlyEligibleSelected ==
    lastSel \notin {Pending, NoServer} =>
        /\ lastSel # Diverged
        /\ \A i \in Named(lastSel) :
              /\ servers[i].status = "Up"
              /\ ~servers[i].backup => (~servers[i].disabled /\ servers[i].weight > 0)
              /\ servers[i].backup => EligibleNames(servers) = {}

C1_Witness ==
    /\ Len(servers) = 2
    /\ lastSel = servers[2].name
    /\ servers[1].status = "Down" /\ servers[1].weight > 0 /\ ~servers[1].backup
    /\ algorithm = "leastconn"

\* C9: after every increment_server_connections or decrement_server_connections
\* call each active_connections is >= 0; a decrement at 0 leaves 0; the servers
\* the call does not name keep their counters.
C9_CountersNeverUnderflow ==
    /\ \A i \in 1..Len(servers) : servers[i].active_connections >= 0
    /\ lastCall.op # "none" =>
          \A i \in 1..Len(servers) :
              LET now == servers[i].active_connections
                  was == lastCall.before[i]
              IN  /\ servers[i].name # lastCall.name => now = was
                  /\ (lastCall.op = "decrement" /\ was = 0) => now = 0
                  /\ (lastCall.op = "decrement" /\ servers[i].name = lastCall.name
                        /\ was > 0) => now = was - 1
                  /\ (lastCall.op = "increment" /\ servers[i].name = lastCall.name)
                        => now = was + 1

C9_Witness ==
    /\ lastCall.op = "decrement" /\ lastCall.name = "s1"
    /\ lastCall.before[1] = 0 /\ servers[1].active_connections = 0
    /\ servers[2].active_connections = 2

Count(h, x) == Cardinality({k \in 1..Len(h) : h[k] = x})

\* every window of k*|E| consecutive selections holds each server of E k times
EvenWindows(h, E) ==
    \A k \in 1..2 : \A from \in 1..Len(h) :
        LET to == from + k * Cardinality(E) - 1
        IN  (E # {} /\ to <= Len(h)) =>
                \A x \in E : Count(SubSeq(h, from, to), x) = k

EligibleWeights(svs) ==
    {svs[i].weight : i \in {j \in 1..Len(svs) : is_available(svs[j])}}

\* C10 as stated: under balance roundrobin with a stable eligible set E, every
\* window of k*|E| consecutive selections holds each server of E exactly k
\* times, whatever the weights.
C10_AsStated ==
    algorithm = "roundrobin" => EvenWindows(hist, EligibleNames(servers))

\* C10 amended: the same, for an eligible set whose servers all have the same
\* weight.
C10_EvenWhenWeightsEqual ==
    (algorithm = "roundrobin" /\ Cardinality(EligibleWeights(servers)) <= 1)
        => EvenWindows(hist, EligibleNames(servers))

C10_Witness ==
    /\ algorithm = "roundrobin"
    /\ Cardinality(EligibleNames(servers)) = 3
    /\ EligibleWeights(servers) = {2}
    /\ Len(hist) = 6

----------------------------------------------------------------------------
(* Properties of the health supervisor *)

C4_AsStated ==
    [][\A n \in CheckedNames :
          (sup.pc = "probe" /\ sup.updated_servers[n].status = "Maintenance")
              => sup'.updated_servers[n].status = "Maintenance"]_vars

----------------------------------------------------------------------------
(* Properties of the handler against the supervisor *)

\* C3: a selection that begins after a cycle has published Down for server s,
\* and before a later cycle publishes Up for s, returns a server other than s.
C3_PublishedDownNotSelected ==
    \A h \in Slots :
        handler[h].pc = "dial" => handler[h].server \notin handler[h].avoid

C3_Witness ==
    /\ handler[1].pc = "dial"
    /\ handler[1].avoid = {"s1"}
    /\ handler[1].server = "s2"
    /\ server_statuses["s1"] = "Down"

\* what a handler that has read the whole of table t holds
ReadOf(t) == [n \in CheckedNames |-> IF t[n] = Absent THEN Unread ELSE t[n]]

\* C5: the statuses a handler has read for the backend's servers are, all
\* together, those of one published table: the one before the cycle or the
\* one after it.
C5_WholeSnapshotRead ==
    \A h \in Slots :
        (handler[h].pc = "copy" /\ handler[h].todo = {}) =>
            \E t \in handler[h].tables : handler[h].seen = ReadOf(t)

C5_Witness ==
    /\ handler[1].pc = "copy"
    /\ handler[1].todo = {}
    /\ handler[1].seen = [n \in CheckedNames |-> "Up"]
    /\ sup.pc = "publish_wait"
    /\ \A n \in CheckedNames : sup.updated_servers[n].status = "Down"

----------------------------------------------------------------------------
(* Properties of the accept loop and of the connection counters *)

LiveHandlers == {h \in Slots : handler[h].pc # "free"}

\* C6 as stated: the number of accepted and not yet completed connections,
\* over all frontends, is at most global.maxconn.
C6_AsStated ==
    /\ Cardinality(LiveHandlers) <= MaxConn
    /\ SumConnections(active_connections) <= MaxConn

\* C7: an accept loop that finds the sum it has read at or over global.maxconn
\* spawns no handler, leaves every per-frontend counter as it is, records
\* exactly one maxconn_limit error and goes on to the next accept.
C7_RejectAtLimit ==
    [][\A l \in Listeners :
          (/\ acceptor[l].pc = "check"
           /\ acceptor[l].current_connections >= MaxConn
           /\ acceptor'[l] # acceptor[l])
              => /\ handler' = handler
                 /\ backendGuard' = backendGuard
                 /\ active_connections' = active_connections
                 /\ maxconn_errors' = maxconn_errors + 1
                 /\ acceptor'[l].pc = "accept"]_vars

C7_Witness ==
    /\ maxconn_errors = 1
    /\ acceptor["l2"].pc = "accept"
    /\ acceptor["l2"].current_connections = MaxConn
    /\ handler[1].pc = "pump"
    /\ SumConnections(active_connections) = MaxConn

BoundHandlers == {h \in Slots : handler[h].server # NoServer}

\* C8 as stated: the sum of the active_connections of the backend's servers
\* equals the number of live handlers bound to one of its servers.
C8_AsStated ==
    SumConnections(Counters(servers)) = Cardinality(BoundHandlers)

----------------------------------------------------------------------------
(* Properties of the weighted picker *)

EligiblePositions(svs) == {i \in 1..Len(svs) : is_available(svs[i])}

RECURSIVE SumWeights(_, _)
SumWeights(svs, S) ==
    IF S = {} THEN 0
    ELSE LET i == CHOOSE x \in S : TRUE
         IN  svs[i].weight + SumWeights(svs, S \ {i})

\* every window of sum(w_i) consecutive selections holds server i w_i times
WeightedWindows(h, svs) ==
    LET E == EligiblePositions(svs)
        W == SumWeights(svs, E)
    IN  \A from \in 1..Len(h) :
            (E # {} /\ from + W - 1 <= Len(h)) =>
                \A i \in E : Count(SubSeq(h, from, from + W - 1), svs[i].name)
                                = svs[i].weight

----------------------------------------------------------------------------
(* Properties of the least-connections picker *)

\* C12: under least-connections a select_server call returns a server of the
\* eligible set whose active_connections is minimal over that set (hence the
\* only such server when the minimum is attained once), and none when the set
\* is empty.
C12_LeastConnectionsMinimal ==
    [][(algorithm = "leastconn" /\ servers' = servers /\ lastCall' = lastCall) =>
          LET E == EligiblePositions(servers)
          IN  IF E = {} THEN lastSel' = NoServer
              ELSE \E i \in E :
                     /\ servers[i].name = lastSel'
                     /\ \A j \in E : servers[i].active_connections
                                        <= servers[j].active_connections]_vars

C12_Witness ==
    /\ algorithm = "leastconn"
    /\ lastSel = "s2"
    /\ servers[1].status = "Up" /\ servers[1].active_connections = 2
    /\ servers[2].status = "Up" /\ servers[2].active_connections = 1
    /\ servers[3].status = "Up" /\ ~servers[3].disabled
    /\ servers[3].active_connections = 3

----------------------------------------------------------------------------
(* Properties of the backup servers *)

UpBackups(svs) == {svs[i].name : i \in {j \in 1..Len(svs) :
                                           is_backup(svs[j]) /\ svs[j].status = "Up"}}

\* C13 as stated: under every policy, when no primary server is eligible and
\* some backup server is Up, select_server returns one of the Up backup
\* servers; it returns none only when there is no Up backup server either.
C13_AsStated ==
    (lastSel # Pending /\ EligibleNames(servers) = {}) =>
        /\ UpBackups(servers) = {} => lastSel = NoServer
        /\ (\E i \in 1..Len(servers) :
               /\ is_backup(servers[i]) /\ servers[i].status = "Up"
               /\ ~servers[i].disabled /\ servers[i].weight > 0)
             => lastSel \in UpBackups(servers)

----------------------------------------------------------------------------
(* Properties of the source policy *)

\* C14 as stated: under the source policy with an unchanged eligible set, the
\* connections of one client are all sent to the same server.
C14_AsStated ==
    algorithm = "source" =>
        \A k \in 1..Len(hist) : \A l \in 1..Len(hist) : hist[k] = hist[l]

----------------------------------------------------------------------------
(* Properties of admission by source address *)

\* C15 as stated: of the connections of one source address made within one
\* second, at most burst_size + requests_per_second reach server selection.
\* (No step of the accept loop or of the handler waits for time to pass, so
\* the selections kept in hist can all fall within one second.)
C15_AsStated ==
    Len(hist) <= burst_size + requests_per_second

----------------------------------------------------------------------------
(* Properties of DdosProtection *)

\* C16 as stated: after any sequence of check_connection_limit,
\* connection_closed and reset_counters calls, a client that is not on the
\* allow list has at most max_connections_per_ip admitted connections that
\* are not yet closed.
C16_AsStated ==
    \A ip \in Clients \ whitelist : ddosOpen[ip] <= max_connections_per_ip

----------------------------------------------------------------------------
(* Properties of the choice of the backend *)

InTenSlashEight(client_addr) == client_addr.ip[1] = 10

\* frontend: acl bad src 10.0.0.0/8, use_backend be if !bad, no default
DenyTenFrontend ==
    [acl |-> <<[name |-> "bad", criterion |-> <<"src", "10.0.0.0/8">>]>>,
     use_backend |-> <<[backend |-> "be", condition |-> "if !bad"]>>,
     default_backend |-> None]

\* C18 as stated: with `acl bad src 10.0.0.0/8`, `use_backend be if !bad` and
\* no default backend, a client inside 10.0.0.0/8 is refused and a client
\* outside it is routed to be.
C18_AsStated ==
    (route.frontend_config = DenyTenFrontend /\ route.result # Unrouted) =>
        IF InTenSlashEight(route.client_addr)
        THEN ~route.result.ok
        ELSE route.result = Routed("be")

\* a use_backend condition read as the name of an ACL or its negation
ConditionOf(condition) ==
    CASE condition = "if !bad" -> [negated |-> TRUE, name |-> "bad"]
      [] condition = "if bad" -> [negated |-> FALSE, name |-> "bad"]
      [] condition = "if eph" -> [negated |-> FALSE, name |-> "eph"]

Declared(frontend_config, name) ==
    {k \in 1..Len(frontend_config.acl) : frontend_config.acl[k].name = name}

\* whether the condition holds for the client: the named ACL's value,
\* negated under `!`
ConditionHolds(frontend_config, condition, client_addr) ==
    LET c == ConditionOf(condition)
        v == \A k \in Declared(frontend_config, c.name) :
                 evaluate_acl(frontend_config.acl[k], client_addr).value
    IN  IF c.negated THEN ~v ELSE v

\* every rule names a declared ACL and every ACL line parses
WellFormed(frontend_config) ==
    /\ \A k \in 1..Len(frontend_config.use_backend) :
          Declared(frontend_config,
                   ConditionOf(frontend_config.use_backend[k].condition).name) # {}
    /\ \A k \in 1..Len(frontend_config.acl) :
          parse_criterion(frontend_config.acl[k].criterion).ok

\* the backend the rules give, read in configuration order
RulesGive(frontend_config, client_addr) ==
    LET rules == frontend_config.use_backend
        holds(k) == ConditionHolds(frontend_config, rules[k].condition, client_addr)
    IN  IF \E k \in 1..Len(rules) : holds(k)
        THEN rules[CHOOSE k \in 1..Len(rules) :
                      holds(k) /\ \A j \in 1..(k - 1) : ~holds(j)].backend
        ELSE frontend_config.default_backend

\* C19 as stated: select_backend returns the backend of the first use_backend
\* rule whose condition holds for the client, default_backend when none does,
\* and refuses the connection when there is no default_backend either.
C19_AsStated ==
    (route.result # Unrouted /\ WellFormed(route.frontend_config)) =>
        LET b == RulesGive(route.frontend_config, route.client_addr)
        IN  IF b = None THEN ~route.result.ok ELSE route.result = Routed(b)

L7OrUnknown(acl) ==
    Len(acl.criterion) > 0
        /\ acl.criterion[1] \notin {"src", "src_port", "dst_port"}

\* C20 as stated: an ACL of an L7 or unknown kind (host, path, hdr, custom)
\* evaluates to true at L4, so a frontend whose ACLs are all of these kinds
\* denies no connection.
C20_AsStated ==
    (/\ route.result # Unrouted
     /\ \A k \in 1..Len(route.frontend_config.acl) :
           /\ L7OrUnknown(route.frontend_config.acl[k])
           /\ parse_criterion(route.frontend_config.acl[k].criterion).ok)
        => route.result.error # "access_denied"

\* membership of an address in the network a CIDR text denotes
MemberOf(ip, cidr) ==
    CASE cidr = "10.0.0.0/8" -> ip[1] = 10
      [] cidr = "192.0.2.0/24" -> ip[1] = 192 /\ ip[2] = 0 /\ ip[3] = 2
      [] cidr = "192.0.2.5" -> ip = <<192, 0, 2, 5>>

\* what an L4 predicate says of a connection (client_ip, client_port,
\* frontend_port)
L4Holds(criterion, client_addr, frontend_port) ==
    CASE criterion[1] = "src" -> MemberOf(client_addr.ip, criterion[2])
      [] criterion[1] = "src_port" -> client_addr.port = parse_port(criterion[2]).port
      [] criterion[1] = "dst_port" -> frontend_port = parse_port(criterion[2]).port

\* C21 as stated: SrcIp(cidr) holds iff the client's IP is a member of cidr,
\* SrcPort(p) iff the client's port is p and DstPort(p) iff the frontend's
\* port is p; seen through a frontend whose only ACL is that predicate, the
\* connection is denied exactly when the predicate does not hold.
C21_AsStated ==
    LET acl == route.frontend_config.acl
    IN  (/\ route.result # Unrouted
         /\ Len(acl) = 1
         /\ acl[1].criterion[1] \in {"src", "src_port", "dst_port"}
         /\ parse_criterion(acl[1].criterion).ok)
            => (route.result.error = "access_denied"
                   <=> ~L4Holds(acl[1].criterion, route.client_addr, route.local_port))

----------------------------------------------------------------------------
(* Properties of the handler tasks *)

Errors ==
    {"access_denied", "acl_error", "no_backend", "no_server",
     "connection_failed", "connection_timeout", "proxy_error"}

\* handler h ends with an error in this step
EndsWithError(h) ==
    /\ handler[h].pc \notin {"free", "closing"}
    /\ handler'[h].pc = "closing"
    /\ handler'[h].result \in Errors

\* C22: when a handler ends with an error (ACL reject, no backend, no
\* available server, dial failure, pump error), only that handler ends: the
\* accept loops and every other handler are left as they were, so a loop
\* that was accepting goes on accepting.
C22_ErrorEndsOnlyItsHandler ==
    [][\A h \in Slots :
          EndsWithError(h) =>
              /\ acceptor' = acceptor
              /\ \A g \in Slots \ {h} : handler'[g] = handler[g]
              /\ active_connections' = active_connections]_vars

\* a handler has ended with an error while the other one is serving its
\* connection and a listener has accepted the next one
C22_Witness ==
    \E h \in Slots, g \in Slots, l \in Listeners :
        /\ h # g
        /\ handler[h].pc = "closing" /\ handler[h].result \in Errors
        /\ handler[g].pc \in {"dial", "pump"}
        /\ acceptor[l].pc = "read"

LiveOf(f) == {h \in Slots : handler[h].pc # "free" /\ handler[h].frontend = f}

\* C23: per frontend, the active-connection counter equals the number of
\* handlers spawned for it that have not yet finished (one increment per
\* admitted connection, one decrement when the handler has returned, with
\* success or with an error), so it is 0 whenever no handler is live.
C23_CounterCountsLiveHandlers ==
    \A f \in Frontends : active_connections[f] = Cardinality(LiveOf(f))

\* a handler has returned an error and is not yet counted down, while the
\* other one serves its connection
C23_Witness ==
    \E h \in Slots, g \in Slots :
        /\ h # g
        /\ handler[h].pc = "closing" /\ handler[h].result \in Errors
        /\ handler[g].pc = "pump"
        /\ active_connections[handler[h].frontend] >= 1

\* C24: when the dial fails or times out, the handler ends with the error
\* connection_failed or connection_timeout, dials no second time, and the
\* server's health state, the shared status table and the pool are left
\* unchanged.
C24_DialFailureEndsHandler ==
    [][\A h \in Slots :
          (handler[h].pc = "dial" /\ handler'[h] # handler[h] /\ handler'[h].pc # "pump")
              => /\ handler'[h].pc = "closing"
                 /\ handler'[h].result \in {"connection_failed", "connection_timeout"}
                 /\ health' = health
                 /\ server_statuses' = server_statuses
                 /\ servers' = servers]_vars

C24_Witness ==
    \E h \in Slots :
        handler[h].pc = "closing" /\ handler[h].result = "connection_timeout"

----------------------------------------------------------------------------
(* Properties of the shutdown *)

\* C28 as stated: once the shutdown signal has been received, no accept loop
\* accepts a further connection and no new handler task is spawned.
C28_AsStated ==
    [][run.pc # "serving" =>
          /\ \A l \in Listeners :
                ~(acceptor[l].pc = "accept" /\ acceptor'[l].pc = "read")
          /\ \A h \in Slots :
                ~(handler[h].pc = "free" /\ handler'[h].pc = "start")]_vars

----------------------------------------------------------------------------
(* Properties of the byte pump *)

\* C25 as stated: as soon as one direction has ended, by EOF, by its timeout
\* or by an I/O error, the pump has returned: it is never still waiting for
\* the other direction.
C25_AsStated ==
    (\E d \in Directions : pump[d].status # "copying") => pump.returned # Joining

----------------------------------------------------------------------------
(* Properties of the handlers on the worker threads *)

\* C26 as stated: every handler task spawned by an accept loop eventually
\* finishes and its frontend's counter is decremented, for any number of
\* concurrent handlers of one backend and any finite number of worker
\* threads.
C26_AsStated ==
    \A h \in Slots : (handler[h].pc # "free") ~> (handler[h].pc = "free")

----------------------------------------------------------------------------
(* Properties of the supervisor's life *)

\* C27 as stated: when the write lock is not acquired within 1 s the
\* supervisor abandons the cycle and stays alive for the next one: a
\* supervisor started by start or by start_with_callback never stops probing.
C27_AsStated == sup.pc # "returned"

----------------------------------------------------------------------------
(* Properties of the probe counters *)

Tables == {health, sup.updated_servers}

\* C29: in every state of every checked server, in the backend's table and
\* in the copy a cycle works on, consecutive_successes and
\* consecutive_failures are not both positive.
C29_CountersNotBothPositive ==
    \A tbl \in Tables : \A n \in DOMAIN tbl :
        ~(tbl[n].consecutive_successes > 0 /\ tbl[n].consecutive_failures > 0)

\* a server that had successes in the table has failed its probe in the
\* running cycle: the copy counts the failure and no success
C29_Witness ==
    \E n \in CheckedNames :
        /\ health[n].consecutive_successes > 0
        /\ sup.pc = "probe"
        /\ sup.updated_servers[n].consecutive_failures = 1
        /\ sup.updated_servers[n].consecutive_successes = 0

\* the probe of this step moves server n to status st
ProbeMoves(n, st) ==
    /\ sup.pc = "probe" /\ sup'.pc = "probe"
    /\ sup.updated_servers[n].status # st
    /\ sup'.updated_servers[n].status = st

\* C30 as stated: in any execution, with admin maintenance operations or
\* without, a probe moves a server to Down only when at least `fall`
\* consecutive probes have failed since the server's last status transition
\* (the failing probe of the step included), and to Up only when at least
\* `rise` have succeeded since then.
C30_AsStated ==
    [][\A n \in CheckedNames :
          /\ ProbeMoves(n, "Down") => probeRun[n].failed_since + 1 >= fall_threshold
          /\ ProbeMoves(n, "Up") => probeRun[n].succeeded_since + 1 >= rise_threshold]_vars

----------------------------------------------------------------------------
(* Properties of the backend's entry *)

\* a handler that has chosen its server and dials it or pumps bytes
Connecting(h) == handler[h].pc \in {"dial", "pump"}

\* a handler that is about to take, or waits for, the backend's entry
WantsEntry(h) == handler[h].pc \in {"start", "guard_wait"}

\* C31 as stated: a handler holds the backend's entry only while it selects
\* a server: while one handler dials or pumps, the entry is free for a second
\* handler of the backend, which can select and dial without waiting.
C31_AsStated ==
    \A h \in Slots : \A g \in Slots \ {h} :
        (Connecting(h) /\ WantsEntry(g)) => backendGuard = 0

----------------------------------------------------------------------------
(* Properties of the accept loop's errors *)

\* the accept loop of listener l is running: it waits in accept or handles
\* the client it has accepted
LoopRunning(l) == acceptor[l].pc \in {"accept", "read", "check"}

\* C40 as stated: an error returned by accept does not end the listener's
\* accept loop: the loop is running in every state, so that it accepts the
\* connections that arrive after the error.
C40_AsStated == \A l \in Listeners : LoopRunning(l)

----------------------------------------------------------------------------
(* Properties of the admin's calls against a running cycle *)

\* the step that writes the cycle's copy back over the health table
WriteBack == sup.pc = "probe" /\ sup'.pc = "publish_wait"

\* set_server_maintenance changed the status of server n after the running
\* cycle cloned the table
SetInCycle(n) == health[n].status # sup.backend_state[n].status

\* C37 as stated: a set_server_maintenance call that took effect after the
\* cycle copied the health table and before it writes the copy back is not
\* lost: after the write-back the server's status is the one the admin set.
C37_AsStated ==
    [][\A n \in CheckedNames :
          (WriteBack /\ SetInCycle(n)) => health'[n].status = health[n].status]_vars

----------------------------------------------------------------------------
(* Properties of the servers without `check` *)

UncheckedNames == ServerNames \ CheckedNames

\* C38: a server whose check flag is not set is never probed, is in neither
\* the health table (the backend's or a cycle's copy) nor the shared status
\* table, and its status in the balancer is Up in every state, whatever the
\* probes of the other servers and the admin's maintenance calls do.
C38_UncheckedStaysUp ==
    \A n \in UncheckedNames :
        /\ n \notin sup.probed
        /\ n \notin DOMAIN health
        /\ n \notin DOMAIN sup.updated_servers
        /\ n \notin DOMAIN server_statuses
        /\ get_server_status(servers, n) = "Up"

\* the checked servers have been probed, published and copied into the
\* balancer as Down and as Maintenance, next to an unchecked server
C38_Witness ==
    /\ UncheckedNames # {}
    /\ get_server_status(servers, "s1") = "Down"
    /\ get_server_status(servers, "s2") = "Maintenance"

----------------------------------------------------------------------------
(* Properties of the weighted picker's loop *)

\* C36: WeightedRoundRobinBalancer.select_server comes to an end on every
\* call, for any cursor and current_weight that earlier calls left and any
\* change of the eligible set between the calls: no call's loop runs through
\* a cursor state twice, and with an eligible server the call returns one.
C36_WrrLoopEnds ==
    algorithm = "weighted_roundrobin" =>
        /\ lastSel # Diverged
        /\ (lastSel = NoServer) =>
              \A i \in 1..Len(servers) :
                  ~(is_available(servers[i]) /\ servers[i].weight > 0)

\* the first call after the heaviest server went Down has returned one of
\* the lighter servers that are left, with the cursor not at its start
C36_Witness ==
    /\ algorithm = "weighted_roundrobin"
    /\ \E i \in 1..Len(servers) :
          /\ servers[i].status = "Down"
          /\ servers[i].weight > balancer.max_weight
    /\ balancer.max_weight > 0
    /\ balancer.current_index > 0
    /\ Len(hist) = 1
    /\ lastSel \in {servers[i].name : i \in 1..Len(servers)}

----------------------------------------------------------------------------
(* Properties of the per-IP connection count *)

Unlisted == Clients \ (whitelist \cup blacklist)

connection_count(ip) ==
    IF ip \in DOMAIN activity THEN activity[ip].connection_count ELSE 0

\* C39: with max_connections_per_ip set and no reset_counters call, under
\* any interleaving of check_connection_limit and connection_closed calls
\* (one close per admitted connection) for an IP on neither list, the IP's
\* connection_count is the number of its admissions minus its closes and is
\* never above max_connections_per_ip.
C39_CountIsOpenConnections ==
    \A ip \in Unlisted :
        /\ connection_count(ip) = ddosOpen[ip]
        /\ connection_count(ip) <= max_connections_per_ip

\* an unlisted IP that holds max_connections_per_ip connections has just
\* been turned away
C39_Witness ==
    \E ip \in Unlisted :
        /\ connection_count(ip) = max_connections_per_ip
        /\ ddosLast = [op |-> "check_connection_limit", ip |-> ip, result |-> FALSE]

----------------------------------------------------------------------------
(* Properties of the pump's reported outcome *)

\* C35 as stated: a pump that ended by a timeout is reported with reason
\* handle_timeout, a pump that ended by an I/O error with reason proxy_error:
\* the two outcomes never carry the same reason.
C35_AsStated ==
    /\ pump.returned.error = "transfer_timeout" => pump.reason = "handle_timeout"
    /\ pump.returned.error \in {"client_to_server_failed", "server_to_client_failed"}
          => pump.reason = "proxy_error"

----------------------------------------------------------------------------
(* Properties of the thresholds of a server *)

ConfigOf(n) == ConfigServers[CHOOSE j \in 1..Len(ConfigServers) : ConfigServers[j].name = n]

\* C33 as stated: every checked server moves on its own rise and fall: at the
\* end of the probe that delivers the server's fall-th consecutive failure
\* its status in the supervisor's table is Down, and at the end of the probe
\* that delivers its rise-th consecutive success it is Up.
C33_AsStated ==
    \A n \in sup.probed :
        /\ probeRun[n].failed >= ConfigOf(n).fall
              => sup.updated_servers[n].status = "Down"
        /\ probeRun[n].succeeded >= ConfigOf(n).rise
              => sup.updated_servers[n].status = "Up"

----------------------------------------------------------------------------
(* Properties of the server line's options *)

Occurs(o, parts) == \E k \in 1..Len(parts) : parts[k] = o

\* the field an option of the line is to set
Written(o) == IF o \in Flags THEN Some(TRUE) ELSE option_value(o, ValueText(o))

\* C34 as stated: for a server line with any subset of the options in any
\* order, every option on the line sets its field of the server definition,
\* also an option written directly after a valued option.
C34_AsStated ==
    \A o \in OptionNames : Occurs(o, parse.parts) => parse.server[o] = Written(o)

----------------------------------------------------------------------------
(* Properties of the writers of the shared status table *)

\* the step is one of the supervisor of be (of be2) holding the write guard
SupWrites == sup.pc = "publishing" /\ sup' # sup
PeerWrites == peer.pc = "publishing" /\ peer' # peer

\* C32: a health cycle of a backend writes only that backend's entry of the
\* shared status table: every step that changes the entry of be is a step
\* of be's supervisor under the write guard and leaves the entry of be2 as
\* it is, and the other way round.
C32_OnlyOwnEntryWritten ==
    [][/\ server_statuses' # server_statuses =>
             (SupWrites /\ ~PeerWrites /\ peer_statuses' = peer_statuses)
       /\ peer_statuses' # peer_statuses =>
             (PeerWrites /\ ~SupWrites /\ server_statuses' = server_statuses)]_vars

\* both supervisors have published, with different statuses for the server
\* named s1 of either backend, and the one waits for the guard the other holds
C32_Witness ==
    /\ server_statuses["s1"] = "Down"
    /\ peer_statuses["s1"] = "Up"
    /\ sup.pc = "publishing"
    /\ peer.pc = "publish_wait"

============================================================================
